---- MODULE Spec2Model ----
(***************************************************************************)
(* Verification model of the PL-300 quiz trainer.                          *)
(*                                                                         *)
(* The repository holds two applications and one pure scoring function:    *)
(*   - the multi-type session app (second component of                     *)
(*     src/unnamed/part_000): settings, session, draft answer (localSel),  *)
(*     commit / navigation / finish / restart / import;                    *)
(*   - the seeded trainer (src/src/App.tsx): bank, order, index, attempts, *)
(*     start / drill / choose / flag / navigation / reset / load bank;     *)
(*   - scoreQuestion (src/unnamed/part_000), modelled as an operator.      *)
(*                                                                         *)
(* The variable app says which of the three a behaviour is about; the      *)
(* variables of the other two keep their idle values.                      *)
(*                                                                         *)
(* Conventions: an optional value (T | undefined, T | null) is a sequence  *)
(* of length 0 or 1; an id that is undefined is the string Undefined; a    *)
(* JavaScript object used as a map is a function whose DOMAIN is its key   *)
(* set.  markedForReview / flagged, which the code leaves undefined until  *)
(* first toggled, are booleans (undefined and false are both falsy and     *)
(* are only ever read through ! or a truthiness test).                     *)
(***************************************************************************)
EXTENDS Integers, Sequences, FiniteSets, TLC

VARIABLES
    app,            \* "score" | "session" | "trainer": which program runs
    \* ---- scoreQuestion under test
    sq, sans, sres,
    \* ---- multi-type session app (src/unnamed/part_000)
    settings,           \* Settings: numQuestions, difficulty, shuffleQuestions
    runtimeQuestions,   \* imported bank, optional
    session,            \* PersistedSession
    localSel,           \* the draft SessionAnswer of the displayed question
    thrown,             \* the last event handler ended with an uncaught TypeError
    \* ---- seeded trainer (src/src/App.tsx)
    bank, seed, randomizeQ, started, order, index, attempts,
    \* ---- the two shuffles under test
    shIn, shOut,        \* argument and result of one shuffleArray call
    shLog,              \* the seededShuffle calls made so far, oldest first
    \* ---- files, storage and callbacks around the two applications
    rejected,           \* a file import has been refused (alert shown)
    exported,           \* the session file of the last Export Session, optional
    stored,             \* the blob under the application's storage key, optional
    mount,              \* the trainer's position in its mount sequence
    onKey,              \* the keydown listener: the render it has captured, optional
    timer               \* the per-question timer: duration, countdown, captured render

scoreVars   == <<sq, sans, sres>>
sessionVars == <<settings, runtimeQuestions, session, localSel, thrown>>
trainerVars == <<bank, seed, randomizeQ, started, order, index, attempts>>
shuffleVars == <<shIn, shOut, shLog>>
hostVars    == <<rejected, exported, stored, mount, onKey, timer>>
vars == <<app, sq, sans, sres, settings, runtimeQuestions, session, localSel, thrown,
          bank, seed, randomizeQ, started, order, index, attempts,
          shIn, shOut, shLog,
          rejected, exported, stored, mount, onKey, timer>>

\* mount: pc is the next step of the mount sequence, queued the state
\* updates the effects have queued for the next render, strict says that
\* the build repeats the mount effects (React.StrictMode, development
\* build), saved is the blob the storage held when the page was opened
Mounted == [pc |-> "mounted", queued |-> <<>>, strict |-> FALSE, saved |-> <<>>]

\* timer: dur is the configured duration, optional; left is secLeft, optional;
\* armed holds the callbacks of the intervals that are running
NoTimer == [dur |-> <<>>, left |-> <<>>, armed |-> <<>>]

\* no file was refused or exported, nothing is stored, the mount sequence
\* is over, no listener and no timer are tracked
IdleHost ==
    /\ rejected = FALSE /\ exported = <<>> /\ stored = <<>>
    /\ mount = Mounted /\ onKey = <<>> /\ timer = NoTimer

Undefined == "undefined"
EmptyMap == [k \in {} |-> Undefined]

Range(s) == {s[i] : i \in 1..Len(s)}
Min(a, b) == IF a <= b THEN a ELSE b
Max(a, b) == IF a >= b THEN a ELSE b

\* obj[k] of a JavaScript object: the value, or undefined
Lookup(f, k) == IF k \in DOMAIN f THEN <<f[k]>> ELSE <<>>
\* { ...obj, [k]: v }
Put(f, k, v) == [x \in (DOMAIN f) \cup {k} |-> IF x = k THEN v ELSE f[x]]

\* Array.prototype.slice(0, n) for an integer n (negative n counts from the end)
Slice0(s, n) ==
    LET end == IF n < 0 THEN Max(Len(s) + n, 0) ELSE Min(n, Len(s))
    IN  SubSeq(s, 1, end)

\* Array.prototype.indexOf, 0-based, -1 when absent
IndexOf(s, x) ==
    IF \E i \in 1..Len(s) : s[i] = x
    THEN (CHOOSE i \in 1..Len(s) : s[i] = x /\ \A j \in 1..(i-1) : s[j] # x) - 1
    ELSE -1

RECURSIVE Join(_, _)
\* Array.prototype.join(sep) on an array of strings
Join(s, sep) ==
    IF Len(s) = 0 THEN ""
    ELSE IF Len(s) = 1 THEN s[1]
    ELSE s[1] \o sep \o Join(Tail(s), sep)

clamp(n, min, max) == Max(min, Min(max, n))

(***************************************************************************)
(* Questions and answers of the session app.                               *)
(***************************************************************************)
NoScoring == [mode |-> <<>>, points |-> <<>>]
Scoring(mode, points) == [mode |-> <<mode>>, points |-> <<points>>]
Ch(id, isCorrect) == [id |-> id, isCorrect |-> isCorrect]

Question(id, type, difficulty, scoring, choices, pairs, ord, matrix, parts) ==
    [id |-> id, type |-> type, difficulty |-> difficulty, scoring |-> scoring,
     choices |-> choices, pairs |-> pairs, order |-> ord, matrix |-> matrix,
     parts |-> parts]
NoMatrix == [rows |-> <<>>, correct |-> EmptyMap]
ChoiceQ(id, type, difficulty, scoring, choices) ==
    Question(id, type, difficulty, scoring, choices, EmptyMap, <<>>, NoMatrix, <<>>)

\* the draft the app creates for a question it has no answer for
EmptyAnswer(qid) ==
    [questionId |-> qid, selected |-> <<>>, selectedPairs |-> EmptyMap,
     selectedOrder |-> <<>>, selectedMatrix |-> EmptyMap, parts |-> EmptyMap,
     isCorrect |-> <<>>, score |-> 0, markedForReview |-> FALSE]

pointsOf(q) == IF q.scoring.points = <<>> THEN 1 ELSE q.scoring.points[1]
modeOf(q)   == IF q.scoring.mode = <<>> THEN "all_or_nothing" ELSE q.scoring.mode[1]

\* sm.choices.find(c => c.isCorrect)?.id
correctIdOf(choices) ==
    IF \E i \in 1..Len(choices) : choices[i].isCorrect
    THEN <<choices[CHOOSE i \in 1..Len(choices) :
                /\ choices[i].isCorrect
                /\ \A j \in 1..(i-1) : ~choices[j].isCorrect].id>>
    ELSE <<>>
\* new Set(mm.choices.filter(c => c.isCorrect).map(c => c.id))
correctIdsOf(choices) == {choices[i].id : i \in {j \in 1..Len(choices) : choices[j].isCorrect}}

Result(ok, pts) == [correct |-> ok, points |-> pts]
UndefinedResult == [undefined |-> TRUE]

scoreSingle(q, ans) ==
    LET correctId == correctIdOf(q.choices)
        ok == Len(ans.selected) = 1 /\ <<ans.selected[1]>> = correctId
    IN  Result(ok, IF ok THEN pointsOf(q) ELSE 0)

\* scoreMulti without the size test: any superset of the correct ids passes
scoreMulti_supersetPasses(q, ans) ==
    LET correctIds == correctIdsOf(q.choices)
        sel == Range(ans.selected)
        allCorrect == \A id \in correctIds : id \in sel
        raw == Cardinality(sel \cap correctIds) - Cardinality(sel \ correctIds)
    IN  IF modeOf(q) = "all_or_nothing"
        THEN Result(allCorrect, IF allCorrect THEN pointsOf(q) ELSE 0)
        ELSE Result(allCorrect, Max(0, Min(pointsOf(q), raw)))

\* scoreMulti whose partial branch does not subtract the incorrect selections
scoreMulti_noPenalty(q, ans) ==
    LET correctIds == correctIdsOf(q.choices)
        sel == Range(ans.selected)
        allCorrect == Cardinality(sel) = Cardinality(correctIds)
                        /\ \A id \in correctIds : id \in sel
        raw == Cardinality(sel \cap correctIds)
    IN  IF modeOf(q) = "all_or_nothing"
        THEN Result(allCorrect, IF allCorrect THEN pointsOf(q) ELSE 0)
        ELSE Result(allCorrect, Max(0, Min(pointsOf(q), raw)))

scoreMulti(q, ans) ==
    LET correctIds == correctIdsOf(q.choices)
        sel == Range(ans.selected)
        allCorrect == Cardinality(sel) = Cardinality(correctIds)
                        /\ \A id \in correctIds : id \in sel
        raw == Cardinality(sel \cap correctIds) - Cardinality(sel \ correctIds)
    IN  IF modeOf(q) = "all_or_nothing"
        THEN Result(allCorrect, IF allCorrect THEN pointsOf(q) ELSE 0)
        ELSE Result(allCorrect, Max(0, Min(pointsOf(q), raw)))

scoreMatch(q, ans) ==
    LET allCorrect == \A k \in DOMAIN q.pairs : <<q.pairs[k]>> = Lookup(ans.selectedPairs, k)
    IN  Result(allCorrect, IF allCorrect THEN pointsOf(q) ELSE 0)

\* the strings join() makes of the elements of a selected order: an element
\* of the array is optional (setOrderAt(index, id) on a shorter array leaves
\* holes), and join() writes a hole as the empty string
holesAsEmpty(sel) == [i \in 1..Len(sel) |-> IF sel[i] = <<>> THEN "" ELSE sel[i][1]]

scoreOrder(q, ans) ==
    LET allCorrect == Join(q.order, "|") = Join(holesAsEmpty(ans.selectedOrder), "|")
    IN  Result(allCorrect, IF allCorrect THEN pointsOf(q) ELSE 0)

scoreMatrix(q, ans) ==
    LET allCorrect == \A rid \in Range(q.matrix.rows) :
                         Lookup(q.matrix.correct, rid) = Lookup(ans.selectedMatrix, rid)
    IN  Result(allCorrect, IF allCorrect THEN pointsOf(q) ELSE 0)

RECURSIVE scoreQuestion(_, _)
RECURSIVE caseGained(_, _, _)
\* gained after the loop over parts[i..]
caseGained(parts, ans, i) ==
    IF i > Len(parts) THEN 0
    ELSE LET pAns == Lookup(ans.parts, parts[i].id)
             res == IF pAns # <<>> THEN scoreQuestion(parts[i], pAns[1])
                                   ELSE Result(FALSE, 0)
         IN  res.points + caseGained(parts, ans, i + 1)
RECURSIVE caseTotal(_, _)
caseTotal(parts, i) ==
    IF i > Len(parts) THEN 0 ELSE pointsOf(parts[i]) + caseTotal(parts, i + 1)

\* scoreCase without the test that the parts have a budget at all
scoreCase_emptyPasses(q, ans) ==
    LET total == caseTotal(q.parts, 1)
        gained == caseGained(q.parts, ans, 1)
        ok == gained >= total
        cap == IF q.scoring.points = <<>> THEN total ELSE q.scoring.points[1]
    IN  Result(ok, Min(cap, gained))

\* scoreCase that reports the gained points without the cap
scoreCase_uncapped(q, ans) ==
    LET total == caseTotal(q.parts, 1)
        gained == caseGained(q.parts, ans, 1)
        ok == gained >= total /\ total > 0
    IN  Result(ok, gained)

scoreCase(q, ans) ==
    LET total == caseTotal(q.parts, 1)
        gained == caseGained(q.parts, ans, 1)
        ok == gained >= total /\ total > 0
        cap == IF q.scoring.points = <<>> THEN total ELSE q.scoring.points[1]
    IN  Result(ok, Min(cap, gained))

scoreQuestion(q, ans) ==
    CASE q.type = "single" -> scoreSingle(q, ans)
      [] q.type = "multi"  -> scoreMulti(q, ans)
      [] q.type = "match"  -> scoreMatch(q, ans)
      [] q.type = "order"  -> scoreOrder(q, ans)
      [] q.type = "matrix" -> scoreMatrix(q, ans)
      [] q.type = "case"   -> scoreCase(q, ans)
      [] OTHER             -> UndefinedResult

(***************************************************************************)
(* scoreQuestion under test: the inputs are drawn in the initial state,    *)
(* Score applies the function once.                                        *)
(***************************************************************************)
MaxSel == 3             \* longest selected array tried
MaxOrder == 2           \* longest correct order and longest selected order tried
MaxScoreCalls == 2      \* calls of scoreQuestion on the same arguments

ChoiceIds == <<"a", "b", "c">>
\* every way of marking the three choices a, b, c, and the two-choice
\* question {a wrong, b right}
ScoreChoices ==
    {<<Ch("a", fa), Ch("b", fb), Ch("c", fc)>> : fa \in BOOLEAN, fb \in BOOLEAN, fc \in BOOLEAN}
        \cup {<<Ch("a", FALSE), Ch("b", TRUE)>>}
ScoreScorings ==
    {[mode |-> m, points |-> p] :
        m \in {<<>>, <<"all_or_nothing">>, <<"partial">>}, p \in {<<>>, <<2>>, <<3>>}}
ScoreQuestions ==
    {ChoiceQ("q", t, "easy", sc, cs) :
        t \in {"single", "multi"}, sc \in ScoreScorings, cs \in ScoreChoices}
SelectedInputs == UNION {[1..n -> Range(ChoiceIds)] : n \in 0..MaxSel}
ScoreAnswers == {[EmptyAnswer("q") EXCEPT !.selected = s] : s \in SelectedInputs}

\* the scoring policies tried with the other question types
TypeScorings == {NoScoring, Scoring("all_or_nothing", 2), Scoring("partial", 3)}
\* every function from a subset of K to V: a Record<string, string> that
\* need not hold every key
PartialMaps(K, V) == UNION {[S -> V] : S \in SUBSET K}

\* match: two left items l1, l2; the right ids are r1, r2, and "" is the
\* value of the "Select..." option
MatchLefts == <<Ch("l1", FALSE), Ch("l2", FALSE)>>
MatchInputs ==
    {<<Question("q", "match", "easy", sc, MatchLefts, pairs, <<>>, NoMatrix, <<>>),
       [EmptyAnswer("q") EXCEPT !.selectedPairs = sel]>> :
        sc \in TypeScorings,
        pairs \in PartialMaps({"l1", "l2"}, {"r1", "r2"}),
        sel \in PartialMaps({"l1", "l2"}, {"r1", "r2", ""})}

\* order: choice ids are arbitrary strings of the bank
OrderIds == {"a", "b", "a|b"}
OrderChoices == <<Ch("a", FALSE), Ch("b", FALSE), Ch("a|b", FALSE)>>
\* an element of a selected order: a hole, the "Choose step..." value ""
\* or a choice id
OrderItems == {<<>>, <<"">>} \cup {<<id>> : id \in OrderIds}
OrderInputs ==
    {<<Question("q", "order", "easy", sc, OrderChoices, EmptyMap, ord, NoMatrix, <<>>),
       [EmptyAnswer("q") EXCEPT !.selectedOrder = sel]>> :
        sc \in {NoScoring, Scoring("all_or_nothing", 2)},
        ord \in UNION {[1..n -> OrderIds] : n \in 0..MaxOrder},
        sel \in UNION {[1..n -> OrderItems] : n \in 0..MaxOrder}}

\* matrix: two rows r1, r2, columns c1, c2
MatrixInputs ==
    {<<Question("q", "matrix", "easy", sc, <<>>, EmptyMap, <<>>,
                [rows |-> <<"r1", "r2">>, correct |-> cor], <<>>),
       [EmptyAnswer("q") EXCEPT !.selectedMatrix = sel]>> :
        sc \in TypeScorings,
        cor \in PartialMaps({"r1", "r2"}, {"c1", "c2"}),
        sel \in PartialMaps({"r1", "r2"}, {"c1", "c2"})}

\* case: parts p1 (single, budget 1 by default), p2 (multi, partial,
\* budget 2) and p0 (single, budget 0)
PartP1 == ChoiceQ("p1", "single", "easy", NoScoring, <<Ch("a", FALSE), Ch("b", TRUE)>>)
PartP2 == ChoiceQ("p2", "multi", "easy", Scoring("partial", 2),
                  <<Ch("a", TRUE), Ch("b", TRUE), Ch("c", FALSE)>>)
PartP0 == ChoiceQ("p0", "single", "easy", Scoring("all_or_nothing", 0),
                  <<Ch("a", TRUE), Ch("b", FALSE)>>)
CaseParts == {<<>>, <<PartP1>>, <<PartP2>>, <<PartP0>>, <<PartP1, PartP2>>}
CaseScorings == {NoScoring, Scoring("all_or_nothing", 1), Scoring("all_or_nothing", 2),
                 Scoring("all_or_nothing", 5)}
\* the selections tried in a part
PartSelections == {<<>>, <<"a">>, <<"b">>, <<"a", "b">>, <<"a", "c">>}
\* the answers of a case: every part is unanswered or holds a selection
PartAnswers(parts) ==
    UNION {[S -> {[EmptyAnswer("p") EXCEPT !.selected = sl] : sl \in PartSelections}] :
              S \in SUBSET {parts[i].id : i \in 1..Len(parts)}}
CaseInputs ==
    UNION {{<<Question("q", "case", "easy", sc, <<>>, EmptyMap, <<>>, NoMatrix, ps),
              [EmptyAnswer("q") EXCEPT !.parts = pa]>> :
               sc \in CaseScorings, pa \in PartAnswers(ps)} : ps \in CaseParts}

\* a question whose type the switch of scoreQuestion does not know
UnknownTypeQ(id) ==
    ChoiceQ(id, "hotspot", "easy", NoScoring, <<Ch("a", TRUE), Ch("b", FALSE)>>)
UnknownInputs ==
    {<<UnknownTypeQ("q"), [EmptyAnswer("q") EXCEPT !.selected = sl]>> : sl \in {<<>>, <<"a">>}}

ScoreInputs ==
    (ScoreQuestions \X ScoreAnswers) \cup MatchInputs \cup OrderInputs
        \cup MatrixInputs \cup CaseInputs \cup UnknownInputs

InitScore ==
    /\ app = "score"
    /\ \E p \in ScoreInputs : sq = p[1] /\ sans = p[2]
    /\ sres = <<>>
    /\ settings = <<>> /\ runtimeQuestions = <<>> /\ session = <<>> /\ localSel = <<>>
    /\ thrown = FALSE
    /\ IdleHost
    /\ bank = <<>> /\ seed = <<>> /\ randomizeQ = FALSE /\ started = FALSE
    /\ order = <<>> /\ index = 0 /\ attempts = EmptyMap
    /\ shIn = <<>> /\ shOut = <<>> /\ shLog = <<>>

\* Score that empties the selection it has scored
Score_consumesAnswer ==
    /\ app = "score"
    /\ Len(sres) < MaxScoreCalls
    /\ sres' = Append(sres, scoreQuestion(sq, sans))
    /\ sq' = sq
    /\ sans' = [sans EXCEPT !.selected = <<>>, !.selectedPairs = EmptyMap,
                             !.selectedOrder = <<>>, !.selectedMatrix = EmptyMap,
                             !.parts = EmptyMap]
    /\ UNCHANGED <<app, sessionVars, trainerVars, shuffleVars, hostVars>>

\* one call of scoreQuestion(sq, sans); sres holds the results of the calls
\* made so far.  The function assigns to none of the fields of its
\* arguments.
Score ==
    /\ app = "score"
    /\ Len(sres) < MaxScoreCalls
    /\ sres' = Append(sres, scoreQuestion(sq, sans))
    /\ sq' = sq
    /\ sans' = sans
    /\ UNCHANGED <<app, sessionVars, trainerVars, shuffleVars, hostVars>>

NextScore == Score
SpecScore == InitScore /\ [][NextScore]_vars

scored == app = "score" /\ sres # <<>>
\* the ids of the choices of q that are marked correct
MarkedCorrect(q) == {c.id : c \in {x \in Range(q.choices) : x.isCorrect}}

(***************************************************************************)
(* The multi-type session app (src/unnamed/part_000, second component).    *)
(*                                                                         *)
(* One action is one user event run to completion: the handler, the        *)
(* re-render and the effects the re-render triggers.  The wall-clock       *)
(* fields startedAt and timeSpentSec are written but never read by any     *)
(* decision of the program and are not part of the modelled state.         *)
(***************************************************************************)

DefaultNumQuestions == 20

sampleQuestions ==
    << ChoiceQ("q1", "single", "easy", NoScoring,
               <<Ch("a", FALSE), Ch("b", TRUE), Ch("c", FALSE), Ch("d", FALSE)>>),
       ChoiceQ("q2", "multi", "medium", NoScoring,
               <<Ch("a", TRUE), Ch("b", TRUE), Ch("c", FALSE), Ch("d", FALSE)>>) >>

\* the arrays the user imports: an empty one and one hard question
ImportedQ3 == ChoiceQ("q3", "single", "hard", Scoring("all_or_nothing", 2),
                      <<Ch("a", TRUE), Ch("b", FALSE)>>)
ImportInputs == { <<>>, <<ImportedQ3>> }

\* the values the user gives the settings menu
NumQuestionsInputs == {1, DefaultNumQuestions}
DifficultyInputs   == {"any", "easy"}
\* the choices the user clicks
ClickIds == {"a", "b"}
SettingsInputs ==
    [numQuestions : NumQuestionsInputs, difficulty : DifficultyInputs,
     shuffleQuestions : BOOLEAN]

\* the values Math.random() can lead to in shuffleArray: js[i] in 0..i is
\* Math.floor(Math.random() * (i + 1)) of the iteration with index i
RandomChoices(n) == [1..(n - 1) -> 0..(n - 1)]
ValidChoices(n) == {js \in RandomChoices(n) : \A i \in 1..(n - 1) : js[i] <= i}

\* Swap that copies a[j] over a[i] and leaves a[j] as it was
Swap_overwrites(a, i, j) == [a EXCEPT ![i + 1] = a[j + 1]]

\* [a[i], a[j]] = [a[j], a[i]] for 0-based i, j
Swap(a, i, j) == [a EXCEPT ![i + 1] = a[j + 1], ![j + 1] = a[i + 1]]
RECURSIVE shuffleLoop(_, _, _)
\* the for loop of shuffleArray from index i down to 1
shuffleLoop(copy, i, js) ==
    IF i > 0 THEN shuffleLoop(Swap(copy, i, js[i]), i - 1, js) ELSE copy
shuffleArray(arr, js) == shuffleLoop(arr, Len(arr) - 1, js)

rawQuestionsOf(rq) == IF rq = <<>> THEN sampleQuestions ELSE rq[1]
filteredOf(raw, s) ==
    IF s.difficulty = "any" THEN raw
    ELSE SelectSeq(raw, LAMBDA q : q.difficulty = s.difficulty)

MapIds(qs) == [i \in 1..Len(qs) |-> qs[i].id]

buildInitialSession(pool, s, js) ==
    LET base == IF s.shuffleQuestions THEN shuffleArray(pool, js) ELSE pool
        ord  == MapIds(Slice0(base, s.numQuestions))
    IN  [questionOrder |-> ord, answers |-> EmptyMap, currentIdx |-> 0,
         finished |-> FALSE]

\* qMap: for (const q of filtered) m[q.id] = q
qMapOf(pool) ==
    [id \in Range(MapIds(pool)) |->
        pool[CHOOSE i \in 1..Len(pool) :
                /\ pool[i].id = id
                /\ \A j \in (i + 1)..Len(pool) : pool[j].id # id]]

currentIdOf(sess) ==
    IF sess.currentIdx + 1 \in 1..Len(sess.questionOrder)
    THEN sess.questionOrder[sess.currentIdx + 1] ELSE Undefined
\* current, optional
currentOf(rq, s, sess) == Lookup(qMapOf(filteredOf(rawQuestionsOf(rq), s)), currentIdOf(sess))

rawQuestions == rawQuestionsOf(runtimeQuestions)
filtered  == filteredOf(rawQuestions, settings)
qMap      == qMapOf(filtered)
currentId == currentIdOf(session)
current   == currentOf(runtimeQuestions, settings, session)

\* the effect on [currentId]: when the displayed id changed, the draft is
\* replaced by the stored answer of the new id or by an empty draft
syncLocalSel(sess, ls) ==
    IF currentIdOf(sess) # currentId
    THEN LET prev == Lookup(sess.answers, currentIdOf(sess))
         IN  IF prev # <<>> THEN prev[1] ELSE EmptyAnswer(currentIdOf(sess))
    ELSE ls

\* commitOn with a score that adds to the score already stored for the question
commitOn_accumulates(sess, cur, ls) ==
    IF cur = <<>> THEN sess
    ELSE LET scoredRes == scoreQuestion(cur[1], ls)
             before == Lookup(sess.answers, cur[1].id)
             updated == [ls EXCEPT
                            !.isCorrect = <<scoredRes.correct>>,
                            !.score = scoredRes.points
                                        + (IF before # <<>> THEN before[1].score ELSE 0)]
         IN  [sess EXCEPT !.answers = Put(sess.answers, cur[1].id, updated)]

\* handleCommitAnswer called in a render whose current question is cur and
\* whose draft is ls: the session after the updater it queues
commitOn(sess, cur, ls) ==
    IF cur = <<>> THEN sess
    ELSE LET scoredRes == scoreQuestion(cur[1], ls)
         IN  \* scored.correct of undefined throws before setSession is reached
             IF scoredRes = UndefinedResult THEN sess
             ELSE LET updated == [ls EXCEPT
                                     !.isCorrect = <<scoredRes.correct>>,
                                     !.score = scoredRes.points]
                  IN  [sess EXCEPT !.answers = Put(sess.answers, cur[1].id, updated)]
commitAnswer(sess) == commitOn(sess, current, localSel)
\* handleCommitAnswer throws a TypeError: scoreQuestion returned undefined
\* and the handler reads scored.correct
commitThrows(cur, ls) == cur # <<>> /\ scoreQuestion(cur[1], ls) = UndefinedResult

ClickInputs(q) == {q.choices[i].id : i \in 1..Len(q.choices)} \cap ClickIds

inSession == app = "session"
\* the answer buttons and choice inputs are rendered only for a question
shown == inSession /\ current # <<>>

Toggle(sel, c) ==
    IF c \in Range(sel) THEN SelectSeq(sel, LAMBDA x : x # c) ELSE Append(sel, c)

InitSession ==
    /\ app = "session"
    /\ settings \in SettingsInputs
    /\ runtimeQuestions = <<>>
    /\ \E js \in ValidChoices(Len(filteredOf(sampleQuestions, settings))) :
          session = buildInitialSession(filteredOf(sampleQuestions, settings), settings, js)
    /\ localSel = EmptyAnswer(currentIdOf(session))
    /\ thrown = FALSE
    /\ IdleHost
    /\ sq = <<>> /\ sans = <<>> /\ sres = <<>>
    /\ shIn = <<>> /\ shOut = <<>> /\ shLog = <<>>
    /\ bank = <<>> /\ seed = <<>> /\ randomizeQ = FALSE /\ started = FALSE
    /\ order = <<>> /\ index = 0 /\ attempts = EmptyMap

idleOthers == UNCHANGED <<app, scoreVars, trainerVars, shuffleVars, hostVars>>

toggleSelect ==
    /\ shown
    /\ \E c \in ClickInputs(current[1]) :
          localSel' =
             IF current[1].type = "single" THEN [localSel EXCEPT !.selected = <<c>>]
             ELSE IF current[1].type = "multi"
                  THEN [localSel EXCEPT !.selected = Toggle(localSel.selected, c)]
                  ELSE localSel
    /\ thrown' = FALSE
    /\ UNCHANGED <<settings, runtimeQuestions, session>>
    /\ idleOthers

markForReviewToggle ==
    /\ shown
    /\ localSel' = [localSel EXCEPT !.markedForReview = ~localSel.markedForReview]
    /\ thrown' = FALSE
    /\ UNCHANGED <<settings, runtimeQuestions, session>>
    /\ idleOthers

\* the Save button
handleCommitAnswer ==
    /\ shown
    /\ session' = commitAnswer(session)
    /\ localSel' = syncLocalSel(session', localSel)
    /\ thrown' = commitThrows(current, localSel)
    /\ UNCHANGED <<settings, runtimeQuestions>>
    /\ idleOthers

\* moveBy that also reopens the session
moveBy_reopens(sess, d) ==
    [sess EXCEPT !.currentIdx =
                    clamp(sess.currentIdx + d, 0, Len(sess.questionOrder) - 1),
                 !.finished = FALSE]

\* moveBy that queues the question again when Next is pressed on the last one
moveBy_requeues(sess, d) ==
    IF d > 0 /\ sess.currentIdx + d > Len(sess.questionOrder) - 1
    THEN [sess EXCEPT !.questionOrder = Append(sess.questionOrder, currentIdOf(sess))]
    ELSE [sess EXCEPT !.currentIdx =
                        clamp(sess.currentIdx + d, 0, Len(sess.questionOrder) - 1)]

\* the updater queued by goNext (d = 1) and goPrev (d = -1)
moveBy(sess, d) ==
    [sess EXCEPT !.currentIdx =
        clamp(sess.currentIdx + d, 0, Len(sess.questionOrder) - 1)]

goNext ==
    /\ shown
    /\ session' = IF commitThrows(current, localSel) THEN session
                  ELSE moveBy(commitAnswer(session), 1)
    /\ localSel' = syncLocalSel(session', localSel)
    /\ thrown' = commitThrows(current, localSel)
    /\ UNCHANGED <<settings, runtimeQuestions>>
    /\ idleOthers

goPrev ==
    /\ shown
    /\ session' = IF commitThrows(current, localSel) THEN session
                  ELSE moveBy(commitAnswer(session), -1)
    /\ localSel' = syncLocalSel(session', localSel)
    /\ thrown' = commitThrows(current, localSel)
    /\ UNCHANGED <<settings, runtimeQuestions>>
    /\ idleOthers

finish ==
    /\ shown
    /\ session' = IF commitThrows(current, localSel) THEN session
                  ELSE [commitAnswer(session) EXCEPT !.finished = TRUE]
    /\ localSel' = syncLocalSel(session', localSel)
    /\ thrown' = commitThrows(current, localSel)
    /\ UNCHANGED <<settings, runtimeQuestions>>
    /\ idleOthers

\* click on entry i of the left question list
listJump ==
    /\ inSession
    /\ \E i \in 0..(Len(session.questionOrder) - 1) :
          session' = [session EXCEPT !.currentIdx = i]
    /\ localSel' = syncLocalSel(session', localSel)
    /\ thrown' = FALSE
    /\ UNCHANGED <<settings, runtimeQuestions>>
    /\ idleOthers

\* click on an entry of the review drawer
reviewJump ==
    /\ inSession
    /\ \E k \in DOMAIN session.answers :
          /\ session.answers[k].markedForReview
          /\ LET idx == IndexOf(session.questionOrder, session.answers[k].questionId)
             IN  session' = IF idx >= 0 THEN [session EXCEPT !.currentIdx = idx]
                            ELSE session
    /\ localSel' = syncLocalSel(session', localSel)
    /\ thrown' = FALSE
    /\ UNCHANGED <<settings, runtimeQuestions>>
    /\ idleOthers

\* startNewSession(pool): the new session, then the re-render
startNewSession(pool) ==
    /\ \E js \in ValidChoices(Len(pool)) :
          session' = buildInitialSession(pool, settings, js)
    /\ localSel' = syncLocalSel(session', localSel)

restart ==
    /\ inSession
    /\ startNewSession(filtered)
    /\ thrown' = FALSE
    /\ UNCHANGED <<settings, runtimeQuestions>>
    /\ idleOthers

\* the Apply & Restart button of the settings menu
applyAndRestart ==
    /\ inSession
    /\ startNewSession(filtered)
    /\ thrown' = FALSE
    /\ UNCHANGED <<settings, runtimeQuestions>>
    /\ idleOthers

\* the three inputs of the settings menu that session construction reads
setNumQuestions ==
    /\ inSession
    /\ \E n \in NumQuestionsInputs : settings' = [settings EXCEPT !.numQuestions = n]
    /\ thrown' = FALSE
    /\ UNCHANGED <<runtimeQuestions, session, localSel>>
    /\ idleOthers

setDifficulty ==
    /\ inSession
    /\ \E d \in DifficultyInputs : settings' = [settings EXCEPT !.difficulty = d]
    /\ thrown' = FALSE
    /\ UNCHANGED <<runtimeQuestions, session, localSel>>
    /\ idleOthers

setShuffleQuestions ==
    /\ inSession
    /\ \E b \in BOOLEAN : settings' = [settings EXCEPT !.shuffleQuestions = b]
    /\ thrown' = FALSE
    /\ UNCHANGED <<runtimeQuestions, session, localSel>>
    /\ idleOthers

\* reader.onload of handleImportJSON with a JSON array
handleImportJSON ==
    /\ inSession
    /\ \E arr \in ImportInputs :
          /\ runtimeQuestions' = <<arr>>
          /\ startNewSession(arr)
    /\ thrown' = FALSE
    /\ UNCHANGED settings
    /\ idleOthers

NextSession ==
    \/ toggleSelect \/ markForReviewToggle \/ handleCommitAnswer
    \/ goNext \/ goPrev \/ finish \/ listJump \/ reviewJump
    \/ restart \/ applyAndRestart
    \/ setNumQuestions \/ setDifficulty \/ setShuffleQuestions
    \/ handleImportJSON
SpecSession == InitSession /\ [][NextSession]_vars

(***************************************************************************)
(* The session app on a bank that holds a question of an unknown type:     *)
(* started with the default settings, the user imports the bank and        *)
(* answers, saves, navigates, finishes and restarts.                       *)
(***************************************************************************)
UnscorableBank == <<UnknownTypeQ("q5"), ImportedQ3>>

InitUnscorable ==
    /\ InitSession
    /\ settings.numQuestions = DefaultNumQuestions
    /\ settings.difficulty = "any"

\* reader.onload of handleImportJSON for the file that holds UnscorableBank
importUnscorable ==
    /\ inSession
    /\ runtimeQuestions' = <<UnscorableBank>>
    /\ startNewSession(UnscorableBank)
    /\ thrown' = FALSE
    /\ UNCHANGED settings
    /\ idleOthers

NextUnscorable ==
    \/ importUnscorable
    \/ toggleSelect \/ markForReviewToggle \/ handleCommitAnswer
    \/ goNext \/ goPrev \/ finish \/ listJump \/ reviewJump
    \/ restart
SpecUnscorable == InitUnscorable /\ [][NextUnscorable]_vars

(***************************************************************************)
(* Seeded shuffle of the trainer (src/src/App.tsx).                        *)
(*                                                                         *)
(* A 32-bit word is a pair <<h, l>> of 16-bit halves, so that no           *)
(* intermediate value leaves the integers of the model checker.  A string  *)
(* is the sequence of its UTF-16 code units.                               *)
(***************************************************************************)
Half == 65536
W(h, l) == <<h % Half, l % Half>>

RECURSIVE XorBits(_, _, _)
XorBits(x, y, n) ==
    IF n = 0 THEN 0
    ELSE (((x % 2) + (y % 2)) % 2) + 2 * XorBits(x \div 2, y \div 2, n - 1)
RECURSIVE OrBits(_, _, _)
OrBits(x, y, n) ==
    IF n = 0 THEN 0
    ELSE (IF x % 2 = 1 \/ y % 2 = 1 THEN 1 ELSE 0) + 2 * OrBits(x \div 2, y \div 2, n - 1)
RECURSIVE Pow2(_)
Pow2(k) == IF k = 0 THEN 1 ELSE 2 * Pow2(k - 1)

\* a ^ b
Xor32(a, b) == <<XorBits(a[1], b[1], 16), XorBits(a[2], b[2], 16)>>
\* a | c for a small constant c < 2^16
Or32(a, c) == <<a[1], OrBits(a[2], c, 16)>>
\* a >>> k for 0 < k < 16
Shr32(a, k) == <<a[1] \div Pow2(k), (a[2] \div Pow2(k)) + (a[1] % Pow2(k)) * Pow2(16 - k)>>
\* (a + b) mod 2^32
Add32(a, b) == W(a[1] + b[1] + ((a[2] + b[2]) \div Half), a[2] + b[2])
\* Math.imul(a, b): the low 32 bits of the product, by 8-bit limbs of b
imul(a, b) ==
    LET b0 == b[2] % 256
        b1 == b[2] \div 256
        a0 == a[2] % 256
        a1 == a[2] \div 256
        p0 == a0 * b0
        p1 == a1 * b0 + a0 * b1
        p2 == a1 * b1
        lowsum == p0 + (p1 % 256) * 256
        carry == (lowsum \div Half) + (p1 \div 256) + p2
        \* (a.h * b.l + a.l * b.h) mod 2^16
        cross1 == (a[1] * b0 + ((a[1] * b1) % 256) * 256) % Half
        cross2 == (b[1] * a0 + ((b[1] * a1) % 256) * 256) % Half
    IN  W(carry + cross1 + cross2, lowsum)

Golden == <<27947, 31221>>      \* 0x6D2B79F5

\* one call of the generator returned by mulberry32: the new seed and the
\* 32-bit numerator of the returned fraction
mulberry32(sd) ==
    LET s1 == Add32(sd, Golden)
        t1 == imul(Xor32(s1, Shr32(s1, 15)), Or32(s1, 1))
        t2 == Xor32(t1, Add32(t1, imul(Xor32(t1, Shr32(t1, 7)), Or32(t1, 61))))
    IN  [seed |-> s1, value |-> Xor32(t2, Shr32(t2, 14))]

RECURSIVE seedHash(_, _, _)
\* the loop of seedFromString from character i on
seedHash(codes, i, n) ==
    IF i > Len(codes) THEN n
    ELSE LET l == n[2] * 31 + codes[i]
         IN  seedHash(codes, i + 1, W(n[1] * 31 + (l \div Half), l))
seedFromString(codes) ==
    LET n == seedHash(codes, 1, <<0, 0>>)
    IN  IF n = <<0, 0>> THEN <<0, 1>> ELSE n

\* Math.floor(rnd() * k) for the numerator u of rnd()
floorTimes(u, k) == ((u[1] * k) + ((u[2] * k) \div Half)) \div Half

RECURSIVE seededLoop(_, _, _)
seededLoop(a, i, sd) ==
    IF i > 0
    THEN LET r == mulberry32(sd)
         IN  seededLoop(Swap(a, i, floorTimes(r.value, i + 1)), i - 1, r.seed)
    ELSE a
seededShuffle(arr, seedCodes) == seededLoop(arr, Len(arr) - 1, seedFromString(seedCodes))

\* the code units of the strings the model uses
CharCodes(str) ==
    CASE str = "PL300-1" -> <<80, 76, 51, 48, 48, 45, 49>>
      [] str = "S2"      -> <<83, 50>>
      [] str = ""        -> <<>>
      [] str = "::Q"     -> <<58, 58, 81>>
      [] str = "::DRILL" -> <<58, 58, 68, 82, 73, 76, 76>>
      [] str = "::A::"   -> <<58, 58, 65, 58, 58>>
      [] str = "::A::q1" -> <<58, 58, 65, 58, 58, 113, 49>>
      [] str = "::A::q2" -> <<58, 58, 65, 58, 58, 113, 50>>
      [] str = "q1"      -> <<113, 49>>
      [] str = "q2"      -> <<113, 50>>
      [] str = "q3"      -> <<113, 51>>
      [] str = "q4"      -> <<113, 52>>

(***************************************************************************)
(* The seeded trainer (src/src/App.tsx).                                   *)
(*                                                                         *)
(* Modelled state: bank.questions, seed, randomizeQ, started, order,       *)
(* index, attempts.  The bank title, the exam countdown (mode, timerMs,    *)
(* paused, durationMin) and the cosmetic settings influence none of them   *)
(* and are left out.                                                       *)
(***************************************************************************)
TCh(id, correct) == [id |-> id, correct |-> correct]
TQ(id, tags, choices) == [id |-> id, tags |-> tags, choices |-> choices]

SAMPLE ==
    [questions |->
        << TQ("q1", {"Visuals", "Report Design"},
              <<TCh("a", TRUE), TCh("b", FALSE), TCh("c", FALSE)>>),
           TQ("q2", {"Filtering"},
              <<TCh("a", TRUE), TCh("b", FALSE), TCh("c", FALSE)>>),
           TQ("q3", {"Governance", "Workspaces"},
              <<TCh("a", FALSE), TCh("b", TRUE), TCh("c", FALSE)>>) >>]

DefaultSeed == "PL300-1"
\* what the user types and picks in the setup panel
SeedInputs == {DefaultSeed, "S2"}
TagInputs  == {"Visuals", "Governance"}
\* the bank files the user loads: one without questions, one with a
\* question whose id the sample bank has and a new one
LoadedBank ==
    [questions |->
        << TQ("q3", {"Governance"}, <<TCh("a", TRUE), TCh("b", FALSE)>>),
           TQ("q4", {"Visuals"}, <<TCh("a", FALSE), TCh("b", TRUE)>>) >>]
BankInputs == { [questions |-> <<>>], LoadedBank }

\* The shuffles the trainer can ask for are computed once: ShuffleTable
\* holds seededShuffle(ids, seed + suffix) for every list of ids and every
\* seed the model uses.
RECURSIVE SubLists(_)
\* the sub-lists of s that keep its order
SubLists(s) ==
    IF Len(s) = 0 THEN {<<>>}
    ELSE LET rest == SubLists(Tail(s))
         IN  rest \cup {<<Head(s)>> \o r : r \in rest}
\* the calls of seededShuffle made when the function itself is under test:
\* question ids under seed + "::Q" and seed + "::DRILL" (one list holds an
\* id twice), the choices of a question under seed + "::A::" + id
SeededCalls ==
    ({<<>>, <<"q1">>, <<"q1", "q2", "q3">>, <<"q2", "q1", "q2">>}
        \X SeedInputs \X {"::Q", "::DRILL"})
    \cup ({<<"a", "b", "c">>} \X SeedInputs \X {"::A::q1", "::A::q2"})
ShuffleKeys ==
    (SubLists(<<"q1", "q2", "q3", "q4">>) \X SeedInputs \X {"::Q", "::DRILL"})
        \cup SeededCalls
ShuffleTable ==
    [k \in ShuffleKeys |-> seededShuffle(k[1], CharCodes(k[2]) \o CharCodes(k[3]))] @@ EmptyMap
\* seededShuffle drawing from the generator the previous call has seeded
shuffled_sharedGenerator(ids, sd, suffix) ==
    ShuffleTable[<<ids, IF shLog = <<>> THEN sd ELSE shLog[Len(shLog)].seed, suffix>>]

\* seededShuffle(ids, sd + suffix)
shuffled(ids, sd, suffix) == ShuffleTable[<<ids, sd, suffix>>]

\* qMap = new Map(bank.questions.map(q => [q.id, q]))
qMapT(b) ==
    [id \in Range(MapIds(b.questions)) |->
        b.questions[CHOOSE i \in 1..Len(b.questions) :
                      /\ b.questions[i].id = id
                      /\ \A j \in (i + 1)..Len(b.questions) : b.questions[j].id # id]]

\* the memo questionOrder
questionOrderOf(b, rq, sd) ==
    LET ids == MapIds(b.questions)
    IN  IF rq THEN shuffled(ids, sd, "::Q") ELSE ids
questionOrder == questionOrderOf(bank, randomizeQ, seed)

\* questionsView[i] (0-based), optional; the order of its choices is not modelled
questionsViewAt(i) ==
    IF i + 1 \in 1..Len(questionOrder) THEN <<qMapT(bank)[questionOrder[i + 1]]>> ELSE <<>>
currentT == questionsViewAt(index)
totalQuestions == IF Len(order) # 0 THEN Len(order) ELSE Len(questionOrder)
\* order.length ? order : questionsView.map(q => q.id)
navigatorIds == IF Len(order) # 0 THEN order ELSE questionOrder

inTrainer == app = "trainer"
\* the setup panel is rendered
setup == inTrainer /\ ~started
\* the active session block is rendered
active == inTrainer /\ started /\ currentT # <<>>

InitTrainer ==
    /\ app = "trainer"
    /\ bank = SAMPLE
    /\ seed = DefaultSeed
    /\ randomizeQ = TRUE
    /\ started = FALSE
    /\ order = <<>>
    /\ index = 0
    /\ attempts = EmptyMap
    /\ sq = <<>> /\ sans = <<>> /\ sres = <<>>
    /\ settings = <<>> /\ runtimeQuestions = <<>> /\ session = <<>> /\ localSel = <<>>
    /\ thrown = FALSE
    /\ IdleHost
    /\ shIn = <<>> /\ shOut = <<>> /\ shLog = <<>>

idleOthersT == UNCHANGED <<app, scoreVars, sessionVars, shuffleVars, hostVars>>

setSeed ==
    /\ setup
    /\ \E sd \in SeedInputs : seed' = sd
    /\ UNCHANGED <<bank, randomizeQ, started, order, index, attempts>>
    /\ idleOthersT

setRandomizeQ ==
    /\ setup
    /\ \E b \in BOOLEAN : randomizeQ' = b
    /\ UNCHANGED <<bank, seed, started, order, index, attempts>>
    /\ idleOthersT

start ==
    /\ setup
    /\ order' = questionOrder
    /\ attempts' = EmptyMap
    /\ index' = 0
    /\ started' = TRUE
    /\ UNCHANGED <<bank, seed, randomizeQ>>
    /\ idleOthersT

\* a merge that appends every incoming question
mergeQuestions_appendsAll(existing, incoming) == existing \o incoming

\* the questions of the bank after merging the incoming ones
mergeQuestions(existing, incoming) ==
    LET fresh == SelectSeq(incoming, LAMBDA q : q.id \notin Range(MapIds(existing)))
        \* an id occurring twice in the incoming bank is appended once
        firstOnly == {i \in 1..Len(fresh) : \A j \in 1..(i - 1) : fresh[j].id # fresh[i].id}
        RECURSIVE keep(_)
        keep(i) == IF i > Len(fresh) THEN <<>>
                   ELSE IF i \in firstOnly THEN <<fresh[i]>> \o keep(i + 1) ELSE keep(i + 1)
    IN  existing \o keep(1)

\* onLoadBank(file, merge) for a file holding the bank object b, then reset()
loadBank(b, merge) ==
    /\ setup
    /\ bank' = IF merge THEN [questions |-> mergeQuestions(bank.questions, b.questions)]
                        ELSE b
    /\ started' = FALSE /\ attempts' = EmptyMap /\ order' = <<>> /\ index' = 0
    /\ UNCHANGED <<seed, randomizeQ>>
    /\ idleOthersT

onLoadBank == \E b \in BankInputs, merge \in BOOLEAN : loadBank(b, merge)

reset ==
    /\ active
    /\ started' = FALSE /\ attempts' = EmptyMap /\ order' = <<>> /\ index' = 0
    /\ UNCHANGED <<bank, seed, randomizeQ>>
    /\ idleOthersT

\* startDrill(tags) with the tags selected in the setup panel
startDrill ==
    /\ setup
    /\ \E tags \in SUBSET TagInputs :
          LET ids == MapIds(SelectSeq(bank.questions, LAMBDA q : q.tags \cap tags # {}))
              seq == IF randomizeQ THEN shuffled(ids, seed, "::DRILL") ELSE ids
          IN  IF Len(ids) = 0
              THEN UNCHANGED <<order, index, attempts, started>>
              ELSE /\ order' = seq /\ index' = 0
                   /\ attempts' = EmptyMap /\ started' = TRUE
    /\ UNCHANGED <<bank, seed, randomizeQ>>
    /\ idleOthersT

choose ==
    /\ active
    /\ \E cid \in {currentT[1].choices[i].id : i \in 1..Len(currentT[1].choices)} \cap ClickIds :
          LET cur == currentT[1]
              isCorrect == \E i \in 1..Len(cur.choices) :
                              /\ cur.choices[i].id = cid
                              /\ \A j \in 1..(i - 1) : cur.choices[j].id # cid
                              /\ cur.choices[i].correct
              prev == Lookup(attempts, cur.id)
          IN  attempts' = Put(attempts, cur.id,
                             [questionId |-> cur.id, choiceIds |-> <<cid>>,
                              isCorrect |-> isCorrect,
                              flagged |-> IF prev # <<>> THEN prev[1].flagged ELSE FALSE])
    /\ UNCHANGED <<bank, seed, randomizeQ, started, order, index>>
    /\ idleOthersT

toggleFlag ==
    /\ active
    /\ LET cur == currentT[1]
           prev == Lookup(attempts, cur.id)
           a == IF prev # <<>> THEN prev[1]
                ELSE [questionId |-> cur.id, choiceIds |-> <<>>, isCorrect |-> FALSE,
                      flagged |-> FALSE]
       IN  attempts' = Put(attempts, cur.id, [a EXCEPT !.flagged = ~a.flagged])
    /\ UNCHANGED <<bank, seed, randomizeQ, started, order, index>>
    /\ idleOthersT

frameNav == UNCHANGED <<bank, seed, randomizeQ, started, order, attempts>> /\ idleOthersT

navFirst == active /\ index' = 0 /\ frameNav
navPrev  == active /\ index' = Max(0, index - 1) /\ frameNav
navNext  == active /\ index' = Min(totalQuestions - 1, index + 1) /\ frameNav

\* click on cell i of the navigator
navigatorJump ==
    /\ active
    /\ \E i \in 0..(Len(navigatorIds) - 1) : index' = i
    /\ frameNav

\* click on a button of the Incorrect list
incorrectJump ==
    /\ active
    /\ \E k \in DOMAIN attempts :
          /\ ~attempts[k].isCorrect
          /\ index' = IndexOf(navigatorIds, attempts[k].questionId)
    /\ frameNav

\* click on a button of the Flagged list
flaggedJump ==
    /\ active
    /\ \E k \in DOMAIN attempts :
          /\ attempts[k].flagged
          /\ index' = IndexOf(navigatorIds, attempts[k].questionId)
    /\ frameNav

NextTrainer ==
    \/ setSeed \/ setRandomizeQ \/ start \/ onLoadBank \/ reset \/ startDrill
    \/ choose \/ toggleFlag
    \/ navFirst \/ navPrev \/ navNext \/ navigatorJump \/ incorrectJump \/ flaggedJump
SpecTrainer == InitTrainer /\ [][NextTrainer]_vars

(***************************************************************************)
(* The trainer's setup panel with bank files only: every file of up to     *)
(* MaxBankLen questions, an id possibly twice in one file, loaded with     *)
(* "Load bank" or "Merge bank".                                            *)
(***************************************************************************)
MaxBankLen == 2     \* questions in one bank file

\* two questions of the same id that differ in their answer key
BankQuestion(id, v) ==
    TQ(id, {"Governance"},
       IF v = 1 THEN <<TCh("a", TRUE), TCh("b", FALSE)>>
                ELSE <<TCh("a", FALSE), TCh("b", TRUE)>>)
\* q3 is an id of the sample bank, q4 and q5 are not
BankQuestions ==
    {BankQuestion("q3", 1), BankQuestion("q3", 2),
     BankQuestion("q4", 1), BankQuestion("q4", 2), BankQuestion("q5", 1)}
BankFiles ==
    {[questions |-> qs] : qs \in UNION {[1..n -> BankQuestions] : n \in 0..MaxBankLen}}

onLoadBankFile == \E b \in BankFiles, merge \in BOOLEAN : loadBank(b, merge)

SpecBank == InitTrainer /\ [][onLoadBankFile]_vars

(***************************************************************************)
(* Export Session and Load Session of the trainer.  exported holds the     *)
(* downloaded file: data is what JSON.parse gives back for the text        *)
(* JSON.stringify has written (strings, integers, booleans, arrays and     *)
(* plain objects, which the exported state consists of, come back as they  *)
(* went in), from is the order, index and attempts the application had     *)
(* when it exported, loaded says that the file has been loaded back.       *)
(***************************************************************************)
MaxAnswered == 1    \* attempts recorded in one session of SpecRoundTrip

\* the object handed to downloadJSON by exportSession
sessionData ==
    [bank |-> bank, seed |-> seed, randomizeQ |-> randomizeQ,
     started |-> started, order |-> order, index |-> index, attempts |-> attempts]

exportSession ==
    /\ inTrainer
    /\ exported = <<>>
    /\ exported' = <<[data |-> sessionData,
                      from |-> [order |-> order, index |-> index, attempts |-> attempts],
                      loaded |-> FALSE]>>
    /\ UNCHANGED <<app, scoreVars, sessionVars, trainerVars, shuffleVars,
                   rejected, stored, mount, onKey, timer>>

\* loadSession that puts the cursor on the first question
loadSession_resetsCursor ==
    /\ inTrainer
    /\ exported # <<>>
    /\ LET data == exported[1].data
       IN  /\ bank' = data.bank
           /\ seed' = IF data.seed = "" THEN DefaultSeed ELSE data.seed
           /\ randomizeQ' = data.randomizeQ
           /\ started' = data.started
           /\ order' = data.order
           /\ index' = 0
           /\ attempts' = data.attempts
    /\ exported' = <<[exported[1] EXCEPT !.loaded = TRUE]>>
    /\ UNCHANGED <<app, scoreVars, sessionVars, shuffleVars,
                   rejected, stored, mount, onKey, timer>>

\* loadSession(file) for the file of the last export: data.x || fallback
\* takes the fallback for "", 0, false, null and a missing member
loadSession ==
    /\ inTrainer
    /\ exported # <<>>
    /\ LET data == exported[1].data
       IN  /\ bank' = data.bank
           /\ seed' = IF data.seed = "" THEN DefaultSeed ELSE data.seed
           /\ randomizeQ' = data.randomizeQ
           /\ started' = data.started
           /\ order' = data.order
           /\ index' = IF data.index = 0 THEN 0 ELSE data.index
           /\ attempts' = data.attempts
    /\ exported' = <<[exported[1] EXCEPT !.loaded = TRUE]>>
    /\ UNCHANGED <<app, scoreVars, sessionVars, shuffleVars,
                   rejected, stored, mount, onKey, timer>>

\* choose and toggleFlag while at most MaxAnswered questions have an
\* attempt; the user answers before exporting and, between the export and
\* the load, navigates, resets, starts and drills
chooseSome ==
    /\ active /\ exported = <<>>
    /\ Cardinality(DOMAIN attempts \cup {currentT[1].id}) <= MaxAnswered
    /\ choose
toggleFlagSome ==
    /\ active /\ exported = <<>>
    /\ Cardinality(DOMAIN attempts \cup {currentT[1].id}) <= MaxAnswered
    /\ toggleFlag

NextRoundTrip ==
    \/ start \/ startDrill \/ reset \/ chooseSome \/ toggleFlagSome
    \/ navNext \/ navPrev \/ incorrectJump
    \/ exportSession \/ loadSession
SpecRoundTrip == InitTrainer /\ [][NextRoundTrip]_vars

(***************************************************************************)
(* The trainer's mount sequence on a page whose storage holds a saved      *)
(* state.  The first render shows the initial state; then the effects run  *)
(* in the order of their declaration: the load effect reads the storage    *)
(* and queues the state updates, the persist effect writes the state of    *)
(* the render it belongs to.  Under React.StrictMode a development build   *)
(* runs both effects a second time before the queued updates are rendered; *)
(* a production build does not.  The render of the queued updates runs the *)
(* persist effect once more.                                               *)
(***************************************************************************)
\* the object saveState writes
blobOf(b, sd, rq, st, ord, idx, att) ==
    [bank |-> b, seed |-> sd, randomizeQ |-> rq, started |-> st,
     order |-> ord, index |-> idx, attempts |-> att]
stateBlob == blobOf(bank, seed, randomizeQ, started, order, index, attempts)

\* states an earlier visit has saved: the setup panel with another seed,
\* and sessions on the sample bank with the cursor on any question, without
\* attempts or with an attempt on the first question presented
SavedAttempts(b, rq, sd) ==
    LET first == qMapT(b)[questionOrderOf(b, rq, sd)[1]]
    IN  { EmptyMap,
          Put(EmptyMap, first.id,
              [questionId |-> first.id, choiceIds |-> <<"a">>,
               isCorrect |-> first.choices[1].correct, flagged |-> FALSE]) }
SavedStates ==
    {blobOf(SAMPLE, "S2", FALSE, FALSE, <<>>, 0, EmptyMap)}
    \cup UNION {{blobOf(SAMPLE, sd, rq, TRUE, questionOrderOf(SAMPLE, rq, sd), idx, att) :
                    idx \in 0..2, att \in SavedAttempts(SAMPLE, rq, sd)} :
                 sd \in SeedInputs, rq \in BOOLEAN}

\* the first render of the page: the useState initial values, the storage
\* as the earlier visit left it, no effect run yet
InitMount ==
    /\ app = "trainer"
    /\ bank = SAMPLE /\ seed = DefaultSeed /\ randomizeQ = TRUE /\ started = FALSE
    /\ order = <<>> /\ index = 0 /\ attempts = EmptyMap
    /\ stored \in {<<>>} \cup {<<b>> : b \in SavedStates}
    /\ \E strict \in BOOLEAN :
          mount = [pc |-> "load", queued |-> <<>>, strict |-> strict, saved |-> stored]
    /\ rejected = FALSE /\ exported = <<>> /\ onKey = <<>> /\ timer = <<>>
    /\ sq = <<>> /\ sans = <<>> /\ sres = <<>>
    /\ settings = <<>> /\ runtimeQuestions = <<>> /\ session = <<>> /\ localSel = <<>>
    /\ thrown = FALSE
    /\ shIn = <<>> /\ shOut = <<>> /\ shLog = <<>>

frameMount ==
    UNCHANGED <<app, scoreVars, sessionVars, shuffleVars, rejected, exported, onKey, timer>>

\* the load effect: loadState(null), then the setters with s.x ?? default
loadEffect ==
    /\ inTrainer /\ mount.pc \in {"load", "load2"}
    /\ mount' = [mount EXCEPT
                    !.queued = IF stored # <<>>
                               THEN <<blobOf(stored[1].bank, stored[1].seed,
                                             stored[1].randomizeQ, stored[1].started,
                                             stored[1].order, stored[1].index,
                                             stored[1].attempts)>>
                               ELSE mount.queued,
                    !.pc = IF mount.pc = "load" THEN "persist" ELSE "persist2"]
    /\ UNCHANGED <<trainerVars, stored>>
    /\ frameMount

\* the persist effect: saveState of the state of the render it was created in
persistEffect ==
    /\ inTrainer /\ mount.pc \in {"persist", "persist2", "persist3"}
    /\ stored' = <<stateBlob>>
    /\ mount' = [mount EXCEPT
                    !.pc = IF mount.pc = "persist3" THEN "mounted"
                           ELSE IF mount.pc = "persist" /\ mount.strict THEN "load2"
                           ELSE "render"]
    /\ UNCHANGED trainerVars
    /\ frameMount

\* the render of the updates the effects have queued; without updates the
\* mount sequence is over
renderQueued ==
    /\ inTrainer /\ mount.pc = "render"
    /\ IF mount.queued = <<>>
       THEN /\ mount' = [mount EXCEPT !.pc = "mounted"]
            /\ UNCHANGED trainerVars
       ELSE LET q == mount.queued[1]
            IN  /\ bank' = q.bank /\ seed' = q.seed /\ randomizeQ' = q.randomizeQ
                /\ started' = q.started /\ order' = q.order /\ index' = q.index
                /\ attempts' = q.attempts
                /\ mount' = [mount EXCEPT !.pc = "persist3", !.queued = <<>>]
    /\ UNCHANGED stored
    /\ frameMount

NextMount == loadEffect \/ persistEffect \/ renderQueued
SpecMount == InitMount /\ [][NextMount]_vars

(***************************************************************************)
(* File imports by the shape of the JSON text.  A file is the value its    *)
(* text parses to: a bare array of questions, an object with a questions   *)
(* array, or anything else (a number, null, an object without questions,   *)
(* text that is not JSON).                                                 *)
(***************************************************************************)
Shapes == {"array", "object", "other"}
FileText(shape, qs) == [shape |-> shape, questions |-> qs]
SessionFileTexts ==
    {FileText(sh, IF sh = "other" THEN <<>> ELSE <<ImportedQ3>>) : sh \in Shapes}
TrainerFileTexts ==
    {FileText(sh, IF sh = "other" THEN <<>> ELSE LoadedBank.questions) : sh \in Shapes}

\* the alert of a refused import; nothing else changes
refuse ==
    /\ rejected' = TRUE
    /\ UNCHANGED <<app, scoreVars, sessionVars, trainerVars, shuffleVars,
                   exported, stored, mount, onKey, timer>>

\* reader.onload of handleImportJSON: JSON.parse, the Array.isArray test,
\* then either the import or the alert of the catch block
importText(f) ==
    /\ inSession
    /\ IF f.shape = "array"
       THEN /\ runtimeQuestions' = <<f.questions>>
            /\ startNewSession(f.questions)
            /\ thrown' = FALSE
            /\ UNCHANGED settings
            /\ idleOthers
       ELSE refuse
handleImportJSONText == \E f \in SessionFileTexts : importText(f)

\* onLoadBank(file, merge): JSON.parse, the Array.isArray(b.questions)
\* test, then either the load or the alert of the caller's catch
loadBankText(f, merge) ==
    /\ setup
    /\ IF f.shape = "object"
       THEN loadBank([questions |-> f.questions], merge)
       ELSE refuse
onLoadBankText == \E f \in TrainerFileTexts, merge \in BOOLEAN : loadBankText(f, merge)

InitImport == InitSession \/ InitTrainer
NextImport ==
    \/ handleImportJSONText \/ onLoadBankText
    \/ toggleSelect \/ goNext \/ restart
    \/ start \/ choose \/ navNext \/ reset
SpecImport == InitImport /\ [][NextImport]_vars

(***************************************************************************)
(* The two shuffles under test.  shuffleArray is called once on an array   *)
(* drawn in the initial state; seededShuffle is called up to               *)
(* MaxShuffleCalls times and every call is logged with its result.         *)
(***************************************************************************)
MaxShuffleLen == 3      \* longest array given to shuffleArray
MaxShuffleCalls == 3    \* calls of seededShuffle in one behaviour

ShuffleItems == {"q1", "q2", "q3"}
ShuffleInputs == UNION {[1..n -> ShuffleItems] : n \in 0..MaxShuffleLen}

InitShuffleArray ==
    /\ app = "shuffleArray"
    /\ shIn \in ShuffleInputs
    /\ shOut = <<>>
    /\ shLog = <<>>
    /\ sq = <<>> /\ sans = <<>> /\ sres = <<>>
    /\ settings = <<>> /\ runtimeQuestions = <<>> /\ session = <<>> /\ localSel = <<>>
    /\ thrown = FALSE
    /\ IdleHost
    /\ bank = <<>> /\ seed = <<>> /\ randomizeQ = FALSE /\ started = FALSE
    /\ order = <<>> /\ index = 0 /\ attempts = EmptyMap

InitSeededShuffle ==
    /\ app = "seededShuffle"
    /\ shIn = <<>>
    /\ shOut = <<>>
    /\ shLog = <<>>
    /\ sq = <<>> /\ sans = <<>> /\ sres = <<>>
    /\ settings = <<>> /\ runtimeQuestions = <<>> /\ session = <<>> /\ localSel = <<>>
    /\ thrown = FALSE
    /\ IdleHost
    /\ bank = <<>> /\ seed = <<>> /\ randomizeQ = FALSE /\ started = FALSE
    /\ order = <<>> /\ index = 0 /\ attempts = EmptyMap

\* shuffleArray(shIn): the loop works on arr.slice(), shIn keeps its value
callShuffleArray ==
    /\ app = "shuffleArray"
    /\ shOut = <<>>
    /\ \E js \in ValidChoices(Len(shIn)) : shOut' = <<shuffleArray(shIn, js)>>
    /\ shIn' = shIn
    /\ UNCHANGED <<app, shLog, scoreVars, sessionVars, trainerVars, hostVars>>

\* seededShuffle(arr, sd + suffix)
callSeededShuffle ==
    /\ app = "seededShuffle"
    /\ Len(shLog) < MaxShuffleCalls
    /\ \E k \in SeededCalls :
          shLog' = Append(shLog, [arr |-> k[1], seed |-> k[2], suffix |-> k[3],
                                  out |-> shuffled(k[1], k[2], k[3])])
    /\ UNCHANGED <<app, shIn, shOut, scoreVars, sessionVars, trainerVars, hostVars>>

InitShuffle == InitShuffleArray \/ InitSeededShuffle
NextShuffle == callShuffleArray \/ callSeededShuffle
SpecShuffle == InitShuffle /\ [][NextShuffle]_vars

(***************************************************************************)
(* The three programs together.                                            *)
(***************************************************************************)
Init == InitScore \/ InitSession \/ InitTrainer
Next == NextScore \/ NextSession \/ NextTrainer
Spec == Init /\ [][Next]_vars

(***************************************************************************)
(* Session and navigation claims                                           *)
(***************************************************************************)
sessionMove == goNext \/ goPrev \/ listJump \/ reviewJump
trainerMove == navFirst \/ navPrev \/ navNext \/ navigatorJump \/ incorrectJump \/ flaggedJump

\* C1: while a session has a non-empty question order the cursor stays in
\* [0, len - 1], in both applications, and Next on the last index (Prev on
\* index 0) leaves it where it is.
C1_CursorInRange ==
    /\ [](/\ (inSession /\ Len(session.questionOrder) > 0) =>
                 session.currentIdx \in 0..(Len(session.questionOrder) - 1)
          /\ (inTrainer /\ started /\ Len(order) > 0) =>
                 index \in 0..(Len(order) - 1))
    /\ [][/\ (goNext /\ session.currentIdx = Len(session.questionOrder) - 1) =>
                 session'.currentIdx = session.currentIdx
          /\ (goPrev /\ session.currentIdx = 0) => session'.currentIdx = 0
          /\ (navNext /\ Len(order) > 0 /\ index = Len(order) - 1) => index' = index
          /\ (navPrev /\ index = 0) => index' = 0]_vars

\* the entry Commit writes for the draft ls of question q
ScoredDraft(q, ls) ==
    LET r == scoreQuestion(q, ls)
    IN  [ls EXCEPT !.isCorrect = <<r.correct>>, !.score = r.points]

\* C2: every move of the cursor away from a displayed question (Next, Prev,
\* left question list, review drawer) leaves the scored draft of the
\* question that was left in answers.
C2_NavigateCommits ==
    [][(sessionMove /\ current # <<>> /\ currentId' # currentId) =>
          Lookup(session'.answers, current[1].id) = <<ScoredDraft(current[1], localSel)>>]_vars

\* the fields of an answer that Commit is said to reproduce
Payload(a) ==
    <<a.selected, a.selectedPairs, a.selectedOrder, a.selectedMatrix, a.parts,
      a.isCorrect, a.score>>

\* C3: a second Commit right after a Commit leaves the key set of answers,
\* the payload, isCorrect and score of the current question's entry and
\* every other entry as the first Commit left them.
C3_CommitIdempotent ==
    [][handleCommitAnswer =>
          LET once  == session'.answers
              twice == commitOn(session', current', localSel').answers
          IN  /\ DOMAIN twice = DOMAIN once
              /\ \A k \in DOMAIN once :
                    IF k = current[1].id THEN Payload(twice[k]) = Payload(once[k])
                    ELSE twice[k] = once[k]]_vars

\* a committed, correct, non-empty answer of the displayed question
C3_Witness ==
    /\ shown
    /\ current[1].id \in DOMAIN session.answers
    /\ session.answers[current[1].id] = ScoredDraft(current[1], localSel)
    /\ localSel.selected # <<>>
    /\ session.answers[current[1].id].isCorrect = <<TRUE>>

IsDuplicateFree(seq) == \A i, j \in 1..Len(seq) : i # j => seq[i] # seq[j]
\* the ids of the questions of the bank rq that pass the difficulty of s
PassingIds(rq, s) ==
    {q.id : q \in {x \in Range(rawQuestionsOf(rq)) :
                      s.difficulty = "any" \/ x.difficulty = s.difficulty}}
FreshSession(sess, rq, s) ==
    /\ Range(sess.questionOrder) \subseteq PassingIds(rq, s)
    /\ IsDuplicateFree(sess.questionOrder)
    /\ Len(sess.questionOrder) = Min(s.numQuestions, Cardinality(PassingIds(rq, s)))
    /\ sess.answers = EmptyMap
    /\ sess.currentIdx = 0
    /\ sess.finished = FALSE

\* C4: the initial session and every session started by Restart, Apply &
\* Restart or a bank import holds only ids that pass the difficulty
\* setting, without duplicates, min(question count, pool size) of them,
\* with no answers, cursor 0 and finished = false.
C4_NewSessionShape ==
    /\ (inSession => FreshSession(session, runtimeQuestions, settings))
    /\ [][(restart \/ applyAndRestart \/ handleImportJSON) =>
             FreshSession(session', runtimeQuestions', settings')]_vars

startsSession == restart \/ applyAndRestart \/ handleImportJSON

\* C5: a finished session stays finished under Select, Commit, Next, Prev,
\* jump, review flag and Finish; finished becomes false only by the start
\* of a new session, which has no answers and cursor 0.
C5_FinishedSticky ==
    [][/\ (inSession /\ session.finished /\ ~startsSession) => session'.finished
       /\ (inSession /\ session.finished /\ ~session'.finished) =>
             /\ startsSession
             /\ session'.answers = EmptyMap
             /\ session'.currentIdx = 0]_vars

\* a finished session in which the user went on to the second question and
\* answered it
C5_Witness ==
    /\ inSession /\ session.finished
    /\ session.currentIdx = 1
    /\ currentId \in DOMAIN session.answers
    /\ session.answers[currentId].selected # <<>>

\* C6: with no question to present, Start, Select, Commit, Next, Prev,
\* ToggleReviewFlag and Finish change neither the started / finished
\* status nor the answers nor the cursor.
C6_EmptyOrderNoOp ==
    [][/\ (inSession /\ Len(session.questionOrder) = 0 /\ Len(filtered) = 0
             /\ (restart \/ toggleSelect \/ handleCommitAnswer \/ goNext \/ goPrev
                   \/ markForReviewToggle \/ finish)) =>
             /\ session'.finished = session.finished
             /\ session'.answers = session.answers
             /\ session'.currentIdx = session.currentIdx
       /\ (inTrainer /\ Len(bank.questions) = 0
             /\ (start \/ startDrill \/ choose \/ toggleFlag \/ navNext \/ navPrev)) =>
             /\ started' = started
             /\ attempts' = attempts
             /\ index' = index]_vars

\* C7: the question order of a session is changed by nothing but the start
\* of a new session, a reset or the load of a bank: a step that changes it
\* is one of those, and is no Select, Commit, Next, Prev, jump, review flag
\* or Finish.
C7_OrderFixed ==
    [][/\ (inSession /\ session'.questionOrder # session.questionOrder) =>
             /\ startsSession
             /\ ~(toggleSelect \/ markForReviewToggle \/ handleCommitAnswer
                    \/ sessionMove \/ finish)
       /\ (inTrainer /\ order' # order) =>
             /\ start \/ startDrill \/ reset \/ onLoadBank
             /\ ~(choose \/ toggleFlag \/ trainerMove)]_vars

\* a session in which answers were committed and the cursor moved, and a
\* trainer session in which a question was answered and the cursor moved
C7_Witness ==
    \/ /\ inSession
       /\ session.currentIdx = 1
       /\ Cardinality(DOMAIN session.answers) = 2
       /\ session.finished
    \/ /\ inTrainer /\ started
       /\ index = 2
       /\ Cardinality(DOMAIN attempts) = 2

(***************************************************************************)
(* Scoring claims                                                          *)
(***************************************************************************)

\* C8: a single-choice question is scored correct iff exactly one choice id
\* is selected and the selected choice is marked correct; the points are
\* the declared points (default 1) when correct and 0 otherwise.
C8_SingleScoring ==
    (scored /\ sq.type = "single") =>
        LET ok == Len(sans.selected) = 1 /\ sans.selected[1] \in MarkedCorrect(sq)
        IN  /\ sres[1].correct = ok
            /\ sres[1].points = (IF ok THEN pointsOf(sq) ELSE 0)

\* C9: a multi-choice question scored all-or-nothing is correct iff the set
\* of selected ids equals the set of ids marked correct; the points are the
\* declared points when correct and 0 otherwise.
C9_MultiAllOrNothing ==
    (scored /\ sq.type = "multi" /\ modeOf(sq) = "all_or_nothing") =>
        LET eq == Range(sans.selected) = MarkedCorrect(sq)
        IN  /\ sres[1].correct = eq
            /\ sres[1].points = (IF eq THEN pointsOf(sq) ELSE 0)

\* correct set {a, c}, selection [a, c], scored correct with the declared points
C9_Witness ==
    /\ scored /\ sq.type = "multi" /\ modeOf(sq) = "all_or_nothing"
    /\ MarkedCorrect(sq) = {"a", "c"}
    /\ sans.selected = <<"a", "c">>
    /\ sq.scoring.points = <<3>>
    /\ sres[1] = Result(TRUE, 3)

\* C10: a multi-choice question scored partially gets
\* clamp(#selected correct - #selected incorrect, 0, declared points) points,
\* and is correct iff the selected set equals the correct set, whatever the
\* points.
C10_MultiPartial ==
    (scored /\ sq.type = "multi" /\ modeOf(sq) = "partial") =>
        LET sel == Range(sans.selected)
            good == Cardinality({id \in sel : id \in MarkedCorrect(sq)})
            bad  == Cardinality({id \in sel : id \notin MarkedCorrect(sq)})
        IN  /\ sres[1].points = clamp(good - bad, 0, pointsOf(sq))
            /\ sres[1].correct = (sel = MarkedCorrect(sq))

\* points 3, correct set {a, c}: the selection [a, b] scores {false, 0}
C10_Witness ==
    /\ scored /\ sq.type = "multi" /\ modeOf(sq) = "partial"
    /\ sq.scoring.points = <<3>>
    /\ MarkedCorrect(sq) = {"a", "c"}
    /\ sans.selected = <<"a", "b">>
    /\ sres[1] = Result(FALSE, 0)

\* the ids of a sequence of choices
IdsOf(choices) == {choices[i].id : i \in 1..Len(choices)}

\* C11: a match question is scored correct iff every left item (choice) of
\* the question is mapped in the selection to its correct right id, a left
\* item without a selection counting as a mismatch; the points are the
\* declared points when correct and 0 otherwise.
C11_MatchScoring ==
    (scored /\ sq.type = "match") =>
        LET ok == \A l \in IdsOf(sq.choices) :
                     /\ l \in DOMAIN sq.pairs
                     /\ l \in DOMAIN sans.selectedPairs
                     /\ sans.selectedPairs[l] = sq.pairs[l]
        IN  /\ sres[1].correct = ok
            /\ sres[1].points = (IF ok THEN pointsOf(sq) ELSE 0)

\* C12: an order question is scored correct iff the selected order has the
\* length of the correct order and holds the same id at every position; the
\* points are the declared points when correct and 0 otherwise.
C12_OrderScoring ==
    (scored /\ sq.type = "order") =>
        LET ok == /\ Len(sans.selectedOrder) = Len(sq.order)
                  /\ \A i \in 1..Len(sq.order) : sans.selectedOrder[i] = <<sq.order[i]>>
        IN  /\ sres[1].correct = ok
            /\ sres[1].points = (IF ok THEN pointsOf(sq) ELSE 0)

\* C13: a matrix question is scored correct iff every row of the question
\* is mapped in the selection to the correct column of that row, a row
\* without a selection not being correct; the points are the declared
\* points when correct and 0 otherwise.
C13_MatrixScoring ==
    (scored /\ sq.type = "matrix") =>
        LET ok == \A r \in Range(sq.matrix.rows) :
                     /\ r \in DOMAIN sq.matrix.correct
                     /\ r \in DOMAIN sans.selectedMatrix
                     /\ sans.selectedMatrix[r] = sq.matrix.correct[r]
        IN  /\ sres[1].correct = ok
            /\ sres[1].points = (IF ok THEN pointsOf(sq) ELSE 0)

RECURSIVE SumSeq(_)
SumSeq(ns) == IF Len(ns) = 0 THEN 0 ELSE Head(ns) + SumSeq(Tail(ns))
\* the points each part of the case q gains under the answer ans: those of
\* the scored part, 0 for an unanswered part
PartGains(q, ans) ==
    [i \in 1..Len(q.parts) |->
        IF q.parts[i].id \in DOMAIN ans.parts
        THEN scoreQuestion(q.parts[i], ans.parts[q.parts[i].id]).points
        ELSE 0]
\* the point budget of each part, 1 when unspecified
PartBudgets(q) == [i \in 1..Len(q.parts) |-> pointsOf(q.parts[i])]

\* C14 as stated: a case is correct iff the points gained over its parts
\* reach the sum of the part budgets.
C14_CaseFlagAsStated ==
    (scored /\ sq.type = "case") =>
        sres[1].correct = (SumSeq(PartGains(sq, sans)) >= SumSeq(PartBudgets(sq)))

\* C14: a case is correct iff the points gained over its parts reach the
\* sum of the part budgets and that sum is positive; a case without parts,
\* or whose parts have no budget, is never correct.
C14_CaseFlag ==
    (scored /\ sq.type = "case") =>
        sres[1].correct = (/\ SumSeq(PartGains(sq, sans)) >= SumSeq(PartBudgets(sq))
                           /\ SumSeq(PartBudgets(sq)) > 0)

\* a case whose two parts are both answered fully: correct
C14_Witness ==
    /\ scored /\ sq.type = "case"
    /\ Len(sq.parts) = 2
    /\ SumSeq(PartGains(sq, sans)) = 3
    /\ sres[1].correct

\* C15: the points of a case are min(cap, gained): gained is the sum of the
\* points of the scored parts (0 for an unanswered part), cap the declared
\* points of the case or, without them, the sum of the part budgets.
C15_CasePoints ==
    (scored /\ sq.type = "case") =>
        LET gained == SumSeq(PartGains(sq, sans))
            cap == IF sq.scoring.points = <<>> THEN SumSeq(PartBudgets(sq))
                   ELSE sq.scoring.points[1]
        IN  sres[1].points = Min(cap, gained)

\* budgets 1 and 2, part 1 correct, part 2 scoring 0: {false, 1}
C15_Witness ==
    /\ scored /\ sq.type = "case"
    /\ sq.scoring.points = <<>>
    /\ PartBudgets(sq) = <<1, 2>>
    /\ DOMAIN sans.parts = {"p1", "p2"}
    /\ PartGains(sq, sans) = <<1, 0>>
    /\ sres[1] = Result(FALSE, 1)

KnownTypes == {"single", "multi", "match", "order", "matrix", "case"}

\* C16: on a question of an unknown type no handler throws, and Commit,
\* Next, Prev and Finish store a zero-point, incorrect answer for it.
C16_UnknownTypeSafe ==
    /\ [](inSession => ~thrown)
    /\ [][(/\ shown
            /\ current[1].type \notin KnownTypes
            /\ (handleCommitAnswer \/ goNext \/ goPrev \/ finish)) =>
              /\ current[1].id \in DOMAIN session'.answers
              /\ session'.answers[current[1].id].isCorrect = <<FALSE>>
              /\ session'.answers[current[1].id].score = 0]_vars

\* the number of positions of seq that hold x
Count(seq, x) == Cardinality({i \in 1..Len(seq) : seq[i] = x})
IsPermutation(out, in) ==
    /\ Len(out) = Len(in)
    /\ \A x \in Range(in) \cup Range(out) : Count(out, x) = Count(in, x)

\* C18: the result of shuffleArray and of every seededShuffle call has the
\* length and the multiset of elements of its input, an input of length 0
\* or 1 comes back as it is, and the input array keeps its value.
C18_ShufflePermutes ==
    /\ []((app = "shuffleArray" /\ shOut # <<>>) =>
              /\ IsPermutation(shOut[1], shIn)
              /\ Len(shIn) <= 1 => shOut[1] = shIn)
    /\ [](app = "seededShuffle" =>
              \A i \in 1..Len(shLog) :
                 /\ IsPermutation(shLog[i].out, shLog[i].arr)
                 /\ Len(shLog[i].arr) <= 1 => shLog[i].out = shLog[i].arr)
    /\ [][callShuffleArray => shIn' = shIn]_vars

\* an array that holds an id twice, returned by shuffleArray in another order
C18_Witness ==
    /\ app = "shuffleArray"
    /\ shIn = <<"q1", "q2", "q1">>
    /\ shOut = << <<"q1", "q1", "q2">> >>

MergedAsStated(A, B, R) ==
    LET n == Len(A)
        S == SubSeq(R, n + 1, Len(R))
        idsA == Range(MapIds(A))
    IN  /\ Len(R) >= n
        /\ SubSeq(R, 1, n) = A
        /\ \A i \in 1..Len(S) : S[i].id \notin idsA
        /\ \A i, j \in 1..Len(S) : i # j => S[i].id # S[j].id
        /\ \A k \in 1..Len(B) : B[k].id \notin idsA => B[k].id \in Range(MapIds(S))
        /\ \E f \in [1..Len(S) -> 1..Len(B)] :
              /\ \A i, j \in 1..Len(S) : i < j => f[i] < f[j]
              /\ \A i \in 1..Len(S) : B[f[i]] = S[i]

\* C20: merging a bank file B into the bank A leaves A's questions as they
\* are and in their order, and appends the questions of B whose id A does
\* not have, each id once and in B's order; a question of B whose id A has
\* is dropped.
C20_MergeBank ==
    [][\A b \in BankFiles :
          loadBank(b, TRUE) =>
              MergedAsStated(bank.questions, b.questions, bank'.questions)]_vars

\* the sample bank after a file with another q3 and a new q4 was merged:
\* one question appended, the sample's q3 as it was
C20_Witness ==
    /\ inTrainer
    /\ bank.questions = SAMPLE.questions \o <<BankQuestion("q4", 1)>>
    /\ BankQuestion("q3", 2) # SAMPLE.questions[3]

(***************************************************************************)
(* Callbacks of the session app that outlive the render that made them.    *)
(*                                                                         *)
(* The keydown listener (effect on [currentId, current]) and the interval  *)
(* callback of the per-question timer (effect on [currentId,               *)
(* settings.perQuestionTimerSec, config.enablePerQuestionTimer,            *)
(* session.finished]) are created by an effect and call goNext, goPrev and *)
(* handleCommitAnswer of the render in which the effect ran: they read     *)
(* the current and localSel of that render.  The effect on [currentId]     *)
(* that replaces localSel runs in the same flush and takes effect in the   *)
(* next render, for which neither callback is created again.               *)
(*                                                                         *)
(* DEFAULT_CONFIG has enablePerQuestionTimer: false and                    *)
(* perQuestionTimerSecDefault: null, and the component has no setter for   *)
(* config: the timer is armed only in a build whose configuration enables  *)
(* it.  timer.dur is the configured duration, absent as shipped.           *)
(***************************************************************************)
TimerSec == 2       \* perQuestionTimerSec of the build that enables the timer
\* the digit keys the user presses: "2" selects the second choice
DigitKeys == {2}

\* the render a callback was created in: its current and its localSel
Closure(cur, ls) == [cur |-> cur, sel |-> ls]

\* const onKey = ...; window.addEventListener("keydown", onKey), when
\* currentId or current differ from those of the previous render
keyboardEffect(sess, ls) ==
    IF currentIdOf(sess) # currentId \/ currentOf(runtimeQuestions, settings, sess) # current
    THEN <<Closure(currentOf(runtimeQuestions, settings, sess), ls)>>
    ELSE onKey

\* armTimer that leaves the interval of the previous question running
armTimer_keepsOld(tm, sess, ls) ==
    IF tm.dur = <<>> \/ sess.finished
    THEN [tm EXCEPT !.left = <<>>, !.armed = <<>>]
    ELSE [tm EXCEPT !.left = tm.dur,
                    !.armed = Append(tm.armed,
                                     Closure(currentOf(runtimeQuestions, settings, sess), ls))]

\* the body of the timer effect in a render with session sess and draft ls
armTimer(tm, sess, ls) ==
    IF tm.dur = <<>> \/ sess.finished
    THEN [tm EXCEPT !.left = <<>>, !.armed = <<>>]
    ELSE [tm EXCEPT !.left = tm.dur,
                    !.armed = <<Closure(currentOf(runtimeQuestions, settings, sess), ls)>>]

\* the timer effect: it runs when currentId or session.finished differ from
\* those of the previous render; tm is the timer as the handler left it
timerEffect(tm, sess, ls) ==
    IF currentIdOf(sess) # currentId \/ sess.finished # session.finished
    THEN armTimer(tm, sess, ls)
    ELSE tm

\* the re-render after a handler that left the draft ls, and its effects
rerender(tm, ls) ==
    /\ localSel' = syncLocalSel(session', ls)
    /\ onKey' = keyboardEffect(session', ls)
    /\ timer' = timerEffect(tm, session', ls)

idleEffects ==
    UNCHANGED <<app, scoreVars, trainerVars, shuffleVars,
                settings, runtimeQuestions, rejected, exported, stored, mount>>

InitEffects ==
    /\ app = "session"
    /\ settings \in {s \in SettingsInputs :
                        s.numQuestions = DefaultNumQuestions /\ s.difficulty = "any"}
    /\ runtimeQuestions = <<>>
    /\ \E js \in ValidChoices(Len(filteredOf(sampleQuestions, settings))) :
          session = buildInitialSession(filteredOf(sampleQuestions, settings), settings, js)
    /\ localSel = EmptyAnswer(currentIdOf(session))
    /\ thrown = FALSE
    /\ rejected = FALSE /\ exported = <<>> /\ stored = <<>> /\ mount = Mounted
    /\ onKey = <<Closure(currentOf(runtimeQuestions, settings, session), localSel)>>
    /\ \E d \in {<<>>, <<TimerSec>>} :
          timer = armTimer([NoTimer EXCEPT !.dur = d], session, localSel)
    /\ sq = <<>> /\ sans = <<>> /\ sres = <<>>
    /\ shIn = <<>> /\ shOut = <<>> /\ shLog = <<>>
    /\ bank = <<>> /\ seed = <<>> /\ randomizeQ = FALSE /\ started = FALSE
    /\ order = <<>> /\ index = 0 /\ attempts = EmptyMap

\* toggleSelect(c) of a render whose current is cur, on the draft ls
toggled(cur, ls, c) ==
    IF cur.type = "single" THEN [ls EXCEPT !.selected = <<c>>]
    ELSE IF cur.type = "multi" THEN [ls EXCEPT !.selected = Toggle(ls.selected, c)]
    ELSE ls

\* the Save, Next, Prev and Finish buttons call the handlers of the
\* displayed render
clickSave ==
    /\ shown
    /\ session' = commitAnswer(session)
    /\ rerender(timer, localSel)
    /\ thrown' = commitThrows(current, localSel)
    /\ idleEffects

clickNext ==
    /\ shown
    /\ session' = IF commitThrows(current, localSel) THEN session
                  ELSE moveBy(commitAnswer(session), 1)
    /\ rerender(timer, localSel)
    /\ thrown' = commitThrows(current, localSel)
    /\ idleEffects

clickPrev ==
    /\ shown
    /\ session' = IF commitThrows(current, localSel) THEN session
                  ELSE moveBy(commitAnswer(session), -1)
    /\ rerender(timer, localSel)
    /\ thrown' = commitThrows(current, localSel)
    /\ idleEffects

clickFinish ==
    /\ shown
    /\ session' = IF commitThrows(current, localSel) THEN session
                  ELSE [commitAnswer(session) EXCEPT !.finished = TRUE]
    /\ rerender(timer, localSel)
    /\ thrown' = commitThrows(current, localSel)
    /\ idleEffects

clickRestart ==
    /\ inSession
    /\ \E js \in ValidChoices(Len(filtered)) :
          session' = buildInitialSession(filtered, settings, js)
    /\ rerender(timer, localSel)
    /\ thrown' = FALSE
    /\ idleEffects

\* goNext (d = 1) or goPrev (d = -1) of the render the callback c was made in
goFrom(c, d) ==
    /\ session' = IF commitThrows(c.cur, c.sel) THEN session
                  ELSE moveBy(commitOn(session, c.cur, c.sel), d)
    /\ thrown' = commitThrows(c.cur, c.sel)

\* keydown "n": onKey calls the goNext it has captured
keyN ==
    /\ inSession /\ onKey # <<>>
    /\ goFrom(onKey[1], 1)
    /\ rerender(timer, localSel)
    /\ idleEffects

\* keydown "p"
keyP ==
    /\ inSession /\ onKey # <<>>
    /\ goFrom(onKey[1], -1)
    /\ rerender(timer, localSel)
    /\ idleEffects

\* keydown "1".."9": toggleSelect reads the captured current and updates
\* the draft through setLocalSel(prev => ...)
keyDigit ==
    /\ inSession /\ onKey # <<>> /\ onKey[1].cur # <<>>
    /\ onKey[1].cur[1].type \in {"single", "multi"}
    /\ \E d \in DigitKeys :
          /\ d <= Len(onKey[1].cur[1].choices)
          /\ session' = session
          /\ rerender(timer, toggled(onKey[1].cur[1], localSel, onKey[1].cur[1].choices[d].id))
    /\ thrown' = FALSE
    /\ idleEffects

\* the interval callback while more than one second is left
tick ==
    /\ inSession /\ timer.armed # <<>>
    /\ timer.left # <<>> /\ timer.left[1] > 1
    /\ timer' = [timer EXCEPT !.left = <<timer.left[1] - 1>>]
    /\ UNCHANGED <<session, localSel, thrown, onKey>>
    /\ idleEffects

\* the interval callback i at prev <= 1: handleCommitAnswer(); goNext();
\* return settings.perQuestionTimerSec
expireOf(i) ==
    /\ session' = IF commitThrows(timer.armed[i].cur, timer.armed[i].sel) THEN session
                  ELSE moveBy(commitOn(commitOn(session, timer.armed[i].cur, timer.armed[i].sel),
                                       timer.armed[i].cur, timer.armed[i].sel), 1)
    /\ thrown' = commitThrows(timer.armed[i].cur, timer.armed[i].sel)
    /\ rerender([timer EXCEPT !.left = timer.dur], localSel)

expireTimer ==
    /\ inSession /\ timer.armed # <<>>
    /\ timer.left # <<>> /\ timer.left[1] <= 1
    /\ \E i \in 1..Len(timer.armed) : expireOf(i)
    /\ idleEffects

NextEffects ==
    \/ clickSave \/ clickNext \/ clickPrev \/ clickFinish \/ clickRestart
    \/ keyN \/ keyP \/ keyDigit
    \/ tick \/ expireTimer
SpecEffects == InitEffects /\ [][NextEffects]_vars

(***************************************************************************)
(* Storage writes of the two applications.                                 *)
(*                                                                         *)
(* save, clear and saveState wrap the localStorage call in try/catch with  *)
(* an empty handler.  ok says that the call succeeded; with ok = FALSE     *)
(* setItem or removeItem throws (quota exceeded, storage disabled).  Each  *)
(* operator gives the blob after the call and whether the call itself      *)
(* threw.  The blob is represented by the value JSON.parse gives back for  *)
(* it: the sessions written here hold strings, numbers, booleans, null and *)
(* plain arrays and objects of them, which JSON.stringify keeps.           *)
(*                                                                         *)
(* One action is a handler, the render it causes and the persistence       *)
(* effect of that render: the session app's effect on [session] and the    *)
(* trainer's effect on all of its state.                                   *)
(***************************************************************************)
\* save without the try/catch: the exception of setItem leaves the function
save_unguarded(blob, v, ok) == [stored |-> IF ok THEN <<v>> ELSE blob, threw |-> ~ok]

\* save(k, v) and saveState(state)
save(blob, v, ok) == [stored |-> IF ok THEN <<v>> ELSE blob, threw |-> FALSE]

\* clear(k)
clear(blob, ok) == [stored |-> IF ok THEN <<>> ELSE blob, threw |-> FALSE]

idleStoring == UNCHANGED <<app, scoreVars, shuffleVars, rejected, exported, mount, onKey, timer>>

\* the session app after a handler that called setSession: the effect on
\* [session] writes the new session; h says that the handler threw, in
\* which case nothing was set and no effect runs
storeSession(blob, h, ok) ==
    /\ localSel' = syncLocalSel(session', localSel)
    /\ stored' = IF h THEN blob ELSE save(blob, session', ok).stored
    /\ thrown' = (h \/ (~h /\ save(blob, session', ok).threw))
    /\ UNCHANGED <<settings, runtimeQuestions, trainerVars>>
    /\ idleStoring

commitStoring(ok) ==
    /\ shown
    /\ session' = commitAnswer(session)
    /\ storeSession(stored, commitThrows(current, localSel), ok)

goNextStoring(ok) ==
    /\ shown
    /\ session' = IF commitThrows(current, localSel) THEN session
                  ELSE moveBy(commitAnswer(session), 1)
    /\ storeSession(stored, commitThrows(current, localSel), ok)

finishStoring(ok) ==
    /\ shown
    /\ session' = IF commitThrows(current, localSel) THEN session
                  ELSE [commitAnswer(session) EXCEPT !.finished = TRUE]
    /\ storeSession(stored, commitThrows(current, localSel), ok)

\* restart: startNewSession() calls clear(SESSION_KEY), then setSession(fresh)
restartStoring(okClear, ok) ==
    /\ inSession
    /\ \E js \in ValidChoices(Len(filtered)) :
          session' = buildInitialSession(filtered, settings, js)
    /\ storeSession(clear(stored, okClear).stored, clear(stored, okClear).threw, ok)

\* the trainer after a handler: the effect on all of its state runs when
\* one of the values changed and writes the new state
storeState(ok) ==
    /\ stored' = IF stateBlob' = stateBlob THEN stored
                 ELSE save(stored, stateBlob', ok).stored
    /\ thrown' = (stateBlob' # stateBlob /\ save(stored, stateBlob', ok).threw)
    /\ UNCHANGED <<settings, runtimeQuestions, session, localSel>>
    /\ idleStoring

startStoring(ok) ==
    /\ setup
    /\ order' = questionOrder
    /\ attempts' = EmptyMap
    /\ index' = 0
    /\ started' = TRUE
    /\ UNCHANGED <<bank, seed, randomizeQ>>
    /\ storeState(ok)

navNextStoring(ok) ==
    /\ active
    /\ index' = Min(totalQuestions - 1, index + 1)
    /\ UNCHANGED <<bank, seed, randomizeQ, started, order, attempts>>
    /\ storeState(ok)

resetStoring(ok) ==
    /\ active
    /\ started' = FALSE /\ attempts' = EmptyMap /\ order' = <<>> /\ index' = 0
    /\ UNCHANGED <<bank, seed, randomizeQ>>
    /\ storeState(ok)

\* the state after the first render and its persistence effect
InitPersist ==
    /\ \/ /\ app = "session"
          /\ settings = [numQuestions |-> DefaultNumQuestions, difficulty |-> "any",
                          shuffleQuestions |-> TRUE]
          /\ runtimeQuestions = <<>>
          /\ \E js \in ValidChoices(Len(filteredOf(sampleQuestions, settings))) :
                session = buildInitialSession(filteredOf(sampleQuestions, settings),
                                              settings, js)
          /\ localSel = EmptyAnswer(currentIdOf(session))
          /\ \E ok \in BOOLEAN :
                /\ stored = save(<<>>, session, ok).stored
                /\ thrown = save(<<>>, session, ok).threw
          /\ bank = <<>> /\ seed = <<>> /\ randomizeQ = FALSE /\ started = FALSE
          /\ order = <<>> /\ index = 0 /\ attempts = EmptyMap
       \/ /\ app = "trainer"
          /\ bank = SAMPLE /\ seed \in SeedInputs /\ randomizeQ = TRUE /\ started = FALSE
          /\ order = <<>> /\ index = 0 /\ attempts = EmptyMap
          /\ settings = <<>> /\ runtimeQuestions = <<>> /\ session = <<>> /\ localSel = <<>>
          /\ \E ok \in BOOLEAN :
                /\ stored = save(<<>>, stateBlob, ok).stored
                /\ thrown = save(<<>>, stateBlob, ok).threw
    /\ rejected = FALSE /\ exported = <<>> /\ mount = Mounted
    /\ onKey = <<>> /\ timer = NoTimer
    /\ sq = <<>> /\ sans = <<>> /\ sres = <<>>
    /\ shIn = <<>> /\ shOut = <<>> /\ shLog = <<>>

NextPersist ==
    \/ toggleSelect
    \/ \E ok \in BOOLEAN : commitStoring(ok)
    \/ \E ok \in BOOLEAN : goNextStoring(ok)
    \/ \E ok \in BOOLEAN : finishStoring(ok)
    \/ \E okClear, ok \in BOOLEAN : restartStoring(okClear, ok)
    \/ \E ok \in BOOLEAN : startStoring(ok)
    \/ \E ok \in BOOLEAN : navNextStoring(ok)
    \/ \E ok \in BOOLEAN : resetStoring(ok)
SpecPersist == InitPersist /\ [][NextPersist]_vars

(***************************************************************************)
(* Files, storage, callbacks and derived views                             *)
(***************************************************************************)
\* C30: in the session app every id of session.questionOrder is a key of
\* qMap, so a non-empty order has a current question; also after an import
\* under a difficulty filter and after a change of the difficulty setting.
C30_OrderInLookup ==
    inSession =>
        /\ \A i \in 1..Len(session.questionOrder) :
               session.questionOrder[i] \in DOMAIN qMap
        /\ Len(session.questionOrder) > 0 => current # <<>>

\* C28: in a started trainer session the question presented at the cursor
\* is the question with id order[index], and every key of attempts is a
\* member of order.
C28_CursorQuestion ==
    (inTrainer /\ started) =>
        /\ currentT # <<>> =>
               /\ index + 1 \in 1..Len(order)
               /\ currentT[1].id = order[index + 1]
        /\ DOMAIN attempts \subseteq Range(order)

\* the derived counts of the trainer: answeredCount, correctCount and the
\* ids of incorrectList
answeredCount(att) == Cardinality(DOMAIN att)
correctCount(att) == Cardinality({k \in DOMAIN att : att[k].isCorrect})
incorrectList(att) == {att[k].questionId : k \in {x \in DOMAIN att : ~att[x].isCorrect}}
\* the score card of the session app: points gained over the answered
\* questions of the order that qMap has
gainedOf(sess, qm) ==
    LET RECURSIVE sum(_)
        sum(i) ==
            IF i > Len(sess.questionOrder) THEN 0
            ELSE LET qid == sess.questionOrder[i]
                 IN  (IF qid \in DOMAIN qm /\ qid \in DOMAIN sess.answers
                         /\ scoreQuestion(qm[qid], sess.answers[qid]) # UndefinedResult
                      THEN scoreQuestion(qm[qid], sess.answers[qid]).points ELSE 0)
                     + sum(i + 1)
    IN  sum(1)

\* C25: the review toggle flips the flag of the current question's answer
\* entry and changes nothing else: the entry's selection, isCorrect and
\* score, every other entry, the answered / correct / incorrect counts and
\* the running score stay as they were, also for a question that has no
\* answer yet.
C25_FlagOnly ==
    [][/\ markForReviewToggle =>
             LET id == current[1].id
                 before == Lookup(session.answers, id)
             IN  /\ id \in DOMAIN session'.answers
                 /\ session'.answers[id].markedForReview =
                       ~(IF before # <<>> THEN before[1].markedForReview ELSE FALSE)
                 /\ before # <<>> =>
                       session'.answers[id] =
                          [before[1] EXCEPT !.markedForReview = ~before[1].markedForReview]
                 /\ \A k \in DOMAIN session.answers \ {id} :
                       k \in DOMAIN session'.answers
                          /\ session'.answers[k] = session.answers[k]
                 /\ gainedOf(session', qMap) = gainedOf(session, qMap)
       /\ toggleFlag =>
             LET id == currentT[1].id
                 before == Lookup(attempts, id)
             IN  /\ id \in DOMAIN attempts'
                 /\ attempts'[id].flagged =
                       ~(IF before # <<>> THEN before[1].flagged ELSE FALSE)
                 /\ before # <<>> =>
                       attempts'[id] = [before[1] EXCEPT !.flagged = ~before[1].flagged]
                 /\ \A k \in DOMAIN attempts \ {id} :
                       k \in DOMAIN attempts' /\ attempts'[k] = attempts[k]
                 /\ answeredCount(attempts') = answeredCount(attempts)
                 /\ correctCount(attempts') = correctCount(attempts)
                 /\ incorrectList(attempts') = incorrectList(attempts)]_vars

\* C21: a bank import accepts a bare array of questions and an object with
\* a questions array, and refuses any other input; a refused import leaves
\* the bank and the session as they were.
C21_ImportShapes ==
    [][/\ \A f \in SessionFileTexts :
             importText(f) =>
                IF f.shape \in {"array", "object"}
                THEN rejected' = rejected /\ runtimeQuestions' = <<f.questions>>
                ELSE rejected' /\ UNCHANGED <<settings, runtimeQuestions, session, localSel>>
       /\ \A f \in TrainerFileTexts, merge \in BOOLEAN :
             loadBankText(f, merge) =>
                IF f.shape \in {"array", "object"}
                THEN /\ rejected' = rejected
                     /\ bank'.questions =
                           IF merge THEN mergeQuestions(bank.questions, f.questions)
                                    ELSE f.questions
                ELSE rejected' /\ UNCHANGED trainerVars]_vars

C29_StartupRestores ==
    (inTrainer /\ mount.saved # <<>>) =>
        /\ stored = mount.saved
        /\ mount.pc = "mounted" =>
               /\ bank = mount.saved[1].bank
               /\ order = mount.saved[1].order
               /\ index = mount.saved[1].index
               /\ attempts = mount.saved[1].attempts

\* C27: in the session app every entry of answers is stored under the id of
\* the question it answers: answers[k].questionId = k for every key k,
\* whether the commit came from a button, from the keys "n" and "p" or from
\* the timer callback.
C27_AnswerUnderOwnId ==
    inSession => \A k \in DOMAIN session.answers : session.answers[k].questionId = k

memory == <<settings, runtimeQuestions, session, localSel,
            bank, seed, randomizeQ, started, order, index, attempts>>

\* C26: a storage write that throws neither fails nor changes the
\* operation that triggered it: no error leaves the handler or its effect,
\* and the in-memory state after the operation is the one the operation
\* produces when the write succeeds, for Commit, Next, Finish and Restart of
\* the session app and Start, Next and Reset of the trainer.
C26_WritesNeverFail ==
    /\ []((inSession \/ inTrainer) => ~thrown)
    /\ [][/\ commitStoring(FALSE) =>
                session' = commitAnswer(session) /\ localSel' = localSel
          /\ goNextStoring(FALSE) =>
                /\ session' = moveBy(commitAnswer(session), 1)
                /\ localSel' = syncLocalSel(session', localSel)
          /\ finishStoring(FALSE) =>
                session' = [commitAnswer(session) EXCEPT !.finished = TRUE]
          /\ (\E ok \in BOOLEAN : restartStoring(FALSE, ok) \/ restartStoring(ok, FALSE)) =>
                /\ \E js \in ValidChoices(Len(filtered)) :
                      session' = buildInitialSession(filtered, settings, js)
                /\ localSel' = syncLocalSel(session', localSel)
          /\ startStoring(FALSE) =>
                (started' /\ order' = questionOrder /\ index' = 0 /\ attempts' = EmptyMap)
          /\ navNextStoring(FALSE) =>
                (index' = Min(totalQuestions - 1, index + 1) /\ order' = order
                    /\ attempts' = attempts /\ started')
          /\ resetStoring(FALSE) =>
                (~started' /\ order' = <<>> /\ index' = 0 /\ attempts' = EmptyMap)]_vars

\* the session app has committed an answer and moved to the second
\* question while the storage still holds the session of the first render:
\* every write since then has failed
C26_Witness ==
    /\ inSession /\ ~thrown
    /\ session.currentIdx = 1 /\ DOMAIN session.answers # {}
    /\ stored # <<>> /\ stored[1].currentIdx = 0 /\ stored[1].answers = EmptyMap

====
